---- MODULE Spec2Model ----
(***************************************************************************)
(* A model of the natural-language query engine of musicMuse               *)
(* (src/music_muse.py, class MusicMuse): the extraction of a parsed record *)
(* from the query text, the synthesis of the parameterized SQL, the store  *)
(* round trips of execute_query and get_event_dates, and format_response.  *)
(*                                                                         *)
(* A query text is a sequence of tokens (the text split at single spaces); *)
(* the regular expressions of the source are modelled on these sequences.  *)
(* A removed word leaves the empty token "" behind, as str.replace leaves  *)
(* the surrounding spaces.                                                 *)
(***************************************************************************)
EXTENDS Bags, Integers, Sequences, FiniteSets, TLC

(***************************************************************************)
(* Bounds of the model.                                                    *)
(***************************************************************************)
\* a query text is the concatenation of at most MaxPhrases phrases
MaxPhrases == 3
\* the store holds at most MaxRows result rows for a grouped query
MaxRows == 2

(***************************************************************************)
(* Optional values: None is the empty sequence, a value v is <<v>>.        *)
(***************************************************************************)
None == <<>>

Some(v) == <<v>>

\* Python truthiness of an optional integer: None and 0 are falsy
Truthy(x) == x # None /\ x[1] # 0

\* Python truthiness of an optional string (a token sequence): None and ""
NonEmptyStr(s) == s # None /\ \E i \in 1..Len(s) : s[i] # ""

(***************************************************************************)
(* Tokens.                                                                 *)
(***************************************************************************)
\* the phrases a query text is put together from
Phrases == {
    <<"first">>, <<"first", "listen">>, <<"percentage">>, <<"2nd">>, <<"0th">>,
    <<"skip">>, <<"top">>, <<"0">>, <<"30">>, <<"song">>, <<"album">>,
    <<"exactly", "3", "times">>, <<"stop listening">>,
    <<"during", "my", "trip">> }

\* the decimal digits a token starts with, as the integer int() gives
NumPrefix ==
    "0" :> 0 @@ "3" :> 3 @@ "30" :> 30 @@ "2nd" :> 2 @@ "0th" :> 0
    @@ "2023" :> 2023 @@ "2020" :> 2020
    @@ "8" :> 8 @@ "8pm" :> 8 @@ "12am" :> 12 @@ "12pm" :> 12 @@ "9am" :> 9
    @@ "5pm" :> 5
    @@ "1st" :> 1 @@ "3rd" :> 3 @@ "4th" :> 4 @@ "11th" :> 11 @@ "12th" :> 12
    @@ "13th" :> 13 @@ "22nd" :> 22 @@ "101st" :> 101 @@ "112th" :> 112

\* what follows the leading digits of a token
NumRest ==
    "0" :> "" @@ "3" :> "" @@ "30" :> "" @@ "2nd" :> "nd" @@ "0th" :> "th"
    @@ "2023" :> "" @@ "2020" :> ""
    @@ "8" :> "" @@ "8pm" :> "pm" @@ "12am" :> "am" @@ "12pm" :> "pm" @@ "9am" :> "am"
    @@ "5pm" :> "pm"
    @@ "1st" :> "st" @@ "3rd" :> "rd" @@ "4th" :> "th" @@ "11th" :> "th"
    @@ "12th" :> "th" @@ "13th" :> "th" @@ "22nd" :> "nd" @@ "101st" :> "st"
    @@ "112th" :> "th"

\* token t matches \d+ at its start
HasDigits(t) == t \in DOMAIN NumPrefix

\* token t is \d+ and nothing else
AllDigits(t) == HasDigits(t) /\ NumRest[t] = ""

\* token t is \d+(?:st|nd|rd|th) and nothing else
IsOrdinalTok(t) == HasDigits(t) /\ NumRest[t] \in {"st", "nd", "rd", "th"}

\* token t consists of the letters a-z and spaces only ([a-z\s]+)
IsAlpha(t) == t # "" /\ ~HasDigits(t)

\* proper substrings of the tokens: <<token, substring>>
SubstrPairs == {
    <<"stop listening", "listen">>, <<"stop listening", "top">>,
    <<"stop listening", "stop">>, <<"stop listening", "listening">> }

\* proper prefixes of the tokens: <<token, prefix>>
PrefixPairs == { <<"stop listening", "stop">>, <<"songs", "song">> }

\* proper suffixes of the tokens: <<token, suffix>>
SuffixPairs == { <<"stop listening", "listening">> }

\* s in t
Contains(t, s) == t = s \/ <<t, s>> \in SubstrPairs \/ <<t, s>> \in PrefixPairs
                        \/ <<t, s>> \in SuffixPairs

\* t.startswith(s)
StartsWith(t, s) == t = s \/ <<t, s>> \in PrefixPairs

\* t.endswith(s)
EndsWith(t, s) == t = s \/ <<t, s>> \in SuffixPairs

\* the words parse_natural_language removes from the lower-cased text
Unsupported == {"discover", "rediscover", "stop listening"}

\* lower_query: the text with each unsupported word replaced by ""
LowerQuery(text) ==
    [i \in 1..Len(text) |-> IF text[i] \in Unsupported THEN "" ELSE text[i]]

\* the tokens of a text that are separated by \s+ (runs of spaces collapse)
Words(q) == SelectSeq(q, LAMBDA t : t # "")

\* needle in text, for a needle of one word
Has(q, s) == \E i \in 1..Len(q) : Contains(q[i], s)

\* needle in text, for a needle of two words separated by one space
Has2(q, s1, s2) ==
    \E i \in 1..(Len(q) - 1) : EndsWith(q[i], s1) /\ StartsWith(q[i + 1], s2)

\* the least element of a non-empty set of integers
Min(S) == CHOOSE x \in S : \A y \in S : x <= y

\* the greatest element of a non-empty set of integers
Max(S) == CHOOSE x \in S : \A y \in S : x >= y

\* s[a..b], empty when a > b
Slice(s, a, b) == IF a > b THEN <<>> ELSE SubSeq(s, a, b)

(***************************************************************************)
(* parse_natural_language: the extraction rules, in the order of the code. *)
(* q is lower_query, text is query_text.                                   *)
(***************************************************************************)
\* the current calendar year, datetime.now().year
CurrentYear == 2026

\* int() of the first one or two digits of the decimal n: (\d{1,2})
FirstTwo(n) == IF n < 10 THEN n
               ELSE IF n < 100 THEN n
               ELSE IF n < 1000 THEN n \div 10
               ELSE IF n < 10000 THEN n \div 100
               ELSE n \div 1000

\* (?::(\d{2}))?\s*(am|pm)? after the hour digits of word i of w
PeriodAt(w, i) ==
    IF NumPrefix[w[i]] >= 100 THEN "" \* further digits follow the two taken
    ELSE IF StartsWith(NumRest[w[i]], "pm") THEN "pm"
    ELSE IF StartsWith(NumRest[w[i]], "am") THEN "am"
    ELSE IF NumRest[w[i]] = "" /\ i < Len(w) /\ StartsWith(w[i + 1], "pm") THEN "pm"
    ELSE IF NumRest[w[i]] = "" /\ i < Len(w) /\ StartsWith(w[i + 1], "am") THEN "am"
    ELSE ""

\* the 24-hour form of an hour and its period
To24(hour, period) == IF period = "pm" /\ hour < 12 THEN hour + 12 ELSE hour

\* the positions of kw\s+(\d{1,2}) in w
HourPositions(w, kw) ==
    { i \in 1..(Len(w) - 1) : EndsWith(w[i], kw) /\ HasDigits(w[i + 1]) }

\* after_match / before_match: the hour of the first "kw H (am|pm)?" of q
HourAfterKeyword(q, kw) ==
    LET w == Words(q)
        P == HourPositions(w, kw)
    IN  IF P = {} THEN None
        ELSE LET i == Min(P) + 1
             IN  Some(To24(FirstTwo(NumPrefix[w[i]]), PeriodAt(w, i)))

\* between_match: "between H (am|pm) and H (am|pm)", both periods required
BetweenPositions(w) ==
    { i \in 1..(Len(w) - 3) :
        /\ EndsWith(w[i], "between")
        /\ HasDigits(w[i + 1]) /\ NumPrefix[w[i + 1]] < 100
        /\ NumRest[w[i + 1]] \in {"am", "pm"}
        /\ w[i + 2] = "and"
        /\ HasDigits(w[i + 3]) /\ NumPrefix[w[i + 3]] < 100
        /\ (StartsWith(NumRest[w[i + 3]], "am") \/ StartsWith(NumRest[w[i + 3]], "pm")) }

\* parsed["time_after"]
time_after(q) ==
    LET w == Words(q)
        B == BetweenPositions(w)
    IN  IF B # {}
        THEN Some(To24(NumPrefix[w[Min(B) + 1]], NumRest[w[Min(B) + 1]]))
        ELSE HourAfterKeyword(q, "after")

\* parsed["time_before"]
time_before(q) ==
    LET w == Words(q)
        B == BetweenPositions(w)
    IN  IF B # {}
        THEN Some(To24(NumPrefix[w[Min(B) + 3]], PeriodAt(w, Min(B) + 3)))
        ELSE HourAfterKeyword(q, "before")

\* token t is \b20\d{2}\b
IsYearTok(t) == AllDigits(t) /\ NumPrefix[t] >= 2000 /\ NumPrefix[t] <= 2099

\* parsed["year"]
year(q) ==
    LET Y == { i \in 1..Len(q) : IsYearTok(q[i]) }
    IN  IF Y # {} THEN Some(NumPrefix[q[Min(Y)]])
        ELSE IF Has2(q, "this", "year") THEN Some(CurrentYear)
        ELSE None

\* month_map, in its order
MonthNames == << "january", "february", "march", "april", "may", "june", "july",
                 "august", "september", "october", "november", "december" >>

\* parsed["month"]
month(q) ==
    LET M == { i \in 1..Len(MonthNames) : Has(q, MonthNames[i]) }
    IN  IF M = {} THEN None ELSE Some(Min(M))

\* dow_map, in its order (Sunday = 0)
DowNames == << "sunday", "monday", "tuesday", "wednesday", "thursday", "friday",
               "saturday" >>

\* parsed["day_of_week"]
day_of_week(q) ==
    LET D == { i \in 1..Len(DowNames) : Has(q, DowNames[i]) }
    IN  IF D = {} THEN None ELSE Some(Min(D) - 1)

\* parsed["season"]
season(q) ==
    IF Has(q, "summer") THEN "summer"
    ELSE IF Has(q, "winter") THEN "winter"
    ELSE IF Has(q, "fall") \/ Has(q, "autumn") THEN "fall"
    ELSE IF Has(q, "spring") THEN "spring"
    ELSE ""

\* ordinal_match: the positions of \b(\d+)(?:st|nd|rd|th)\b
OrdinalPositions(q) == { i \in 1..Len(q) : IsOrdinalTok(q[i]) }

\* parsed["nth"]
nth(q) ==
    IF OrdinalPositions(q) = {} THEN None
    ELSE Some(NumPrefix[q[Min(OrdinalPositions(q))]])

\* the first-listen rule
FirstRule(q) == Has2(q, "first", "listen") \/ (Has(q, "first") /\ Has(q, "listen"))

\* the action after the ordinal rule
ActionAfterOrdinal(q) == IF OrdinalPositions(q) # {} THEN "nth" ELSE "None"

\* the percentage rule placed before the ordinal rule, which then overrides it
ActionOrdinalOverrides(q) ==
    IF OrdinalPositions(q) # {} THEN "nth"
    ELSE IF Has(q, "percentage") THEN "percentage" ELSE "None"

\* the action after the percentage rule, which overrides the ordinal rule
ActionAfterPercentage(q) ==
    IF Has(q, "percentage") THEN "percentage" ELSE ActionAfterOrdinal(q)

\* the first-listen rule placed before the percentage rule
ActionPercentageOverrides(q) ==
    IF Has(q, "percentage") THEN "percentage"
    ELSE IF FirstRule(q) THEN "first" ELSE ActionAfterOrdinal(q)

\* the action after the first-listen rule, which overrides both
ActionAfterFirst(q) == IF FirstRule(q) THEN "first" ELSE ActionAfterPercentage(q)

\* the action with a rule for "last" before the default
action_with_last(q) ==
    IF ActionAfterFirst(q) = "None"
    THEN IF Has(q, "last") THEN "last"
         ELSE IF Has(q, "skip") \/ Has(q, "skipped") THEN "skipped" ELSE "top"
    ELSE ActionAfterFirst(q)

\* parsed["action"]: the default applies when no rule has set an action
action(q) ==
    IF ActionAfterFirst(q) = "None"
    THEN IF Has(q, "skip") \/ Has(q, "skipped") THEN "skipped" ELSE "top"
    ELSE ActionAfterFirst(q)

\* parsed["entity_type"]
entity_type(q) ==
    IF Has(q, "artist") THEN "artist"
    ELSE IF Has(q, "track") \/ Has(q, "song") THEN "track"
    ELSE IF Has(q, "album") THEN "album"
    ELSE "artist"

(***************************************************************************)
(* The filter value: a string is the sequence of its words, None is <<>>.  *)
(***************************************************************************)
\* the lower-case and the capitalized form of the words: <<lower, Capitalized>>
CasePairs == {
    <<"first", "First">>, <<"listen", "Listen">>, <<"percentage", "Percentage">>,
    <<"skip", "Skip">>, <<"top", "Top">>, <<"song", "Song">>, <<"album", "Album">>,
    <<"exactly", "Exactly">>, <<"times", "Times">>, <<"during", "During">>,
    <<"my", "My">>, <<"trip", "Trip">>, <<"stop listening", "Stop Listening">>,
    <<"favorite", "Favorite">>, <<"songs", "Songs">>, <<"track", "Track">>,
    <<"after", "After">>, <<"before", "Before">>, <<"between", "Between">>,
    <<"and", "And">>, <<"am", "Am">>,
    <<"what", "What">>, <<"were", "Were">>, <<"are", "Are">>, <<"drake", "Drake">>,
    <<"last", "Last">> }

\* str.title() of one word
TitleTok(t) == IF \E p \in CasePairs : p[1] = t
               THEN (CHOOSE p \in CasePairs : p[1] = t)[2] ELSE t

\* str.lower() of one word
LowerTok(t) == IF \E p \in CasePairs : p[2] = t
               THEN (CHOOSE p \in CasePairs : p[2] = t)[1] ELSE t

\* str.title()
Title(s) == [i \in 1..Len(s) |-> TitleTok(s[i])]

\* str.lower()
Lower(s) == [i \in 1..Len(s) |-> LowerTok(s[i])]

\* word t matches [A-Z][a-z]+ as a whole
IsCapWord(t) == \E p \in CasePairs : p[2] = t /\ p[1] # t

\* word t starts with one of the nouns
StartsWithAny(t, nouns) == \E n \in nouns : StartsWith(t, n)

\* the matches of  head\s+(group)\s+(noun)  in w, as <<i, j>>: the head ends
\* at a word i of H, a noun starts word j, the group is w[i+1..j-1], not
\* empty, and made of letters only when alpha is set
GroupMatches(w, H, alpha, nouns) ==
    { m \in H \X (1..Len(w)) :
        /\ m[2] > m[1] + 1
        /\ StartsWithAny(w[m[2]], nouns)
        /\ \A k \in (m[1] + 1)..(m[2] - 1) : alpha => IsAlpha(w[k]) }

\* the group of the leftmost match, the shortest for a lazy quantifier and
\* the longest for a greedy one
GroupOf(w, M, lazy) ==
    LET i == Min({ m[1] : m \in M })
        J == { m[2] : m \in { x \in M : x[1] = i } }
        j == IF lazy THEN Min(J) ELSE Max(J)
    IN  Slice(w, i + 1, j - 1)

\* nth_filter: \d+(?:st|nd|rd|th)\s+([a-z\s]+?)\s+(song|track|album)
NthFilterMatches(w) ==
    GroupMatches(w, { i \in 1..Len(w) : IsOrdinalTok(w[i]) }, TRUE,
                 {"song", "track", "album"})

\* filter_value after the ordinal rule
FilterAfterOrdinal(q) ==
    IF OrdinalPositions(q) # {} /\ NthFilterMatches(Words(q)) # {}
    THEN GroupOf(Words(q), NthFilterMatches(Words(q)), TRUE)
    ELSE None

\* artist_match: (?:percentage.*of my)\s+([a-z\s]+?)\s+plays, as <<a, j>> with
\* "of my" at words a, a+1 and "plays" starting word j
ArtistMatches(w) ==
    { m \in (1..Len(w)) \X (1..Len(w)) :
        /\ \E p \in 1..m[1] : Contains(w[p], "percentage")
        /\ EndsWith(w[m[1]], "of")
        /\ m[1] < Len(w) /\ w[m[1] + 1] = "my"
        /\ m[2] > m[1] + 2
        /\ StartsWith(w[m[2]], "plays")
        /\ \A k \in (m[1] + 2)..(m[2] - 1) : IsAlpha(w[k]) }

\* filter_value after the percentage rule
FilterAfterPercentage(q) ==
    LET w == Words(q)
        M == ArtistMatches(w)
    IN  IF Has(q, "percentage") /\ ~NonEmptyStr(FilterAfterOrdinal(q)) /\ M # {}
        THEN LET a == Max({ m[1] : m \in M })
                 j == Min({ m[2] : m \in { x \in M : x[1] = a } })
             IN  Title(Slice(w, a + 2, j - 1))
        ELSE FilterAfterOrdinal(q)

\* filter_match: first listen(?:ed)? to\s+(.+?)(?:\s+from|$), the positions
\* of "first" in q
FirstToPositions(q) ==
    { i \in 1..(Len(q) - 3) :
        /\ EndsWith(q[i], "first")
        /\ q[i + 1] \in {"listen", "listened"}
        /\ q[i + 2] = "to"
        /\ Words(Slice(q, i + 3, Len(q))) # <<>> }

\* the group of filter_match: up to the first following "from", or the end
FirstToGroup(q) ==
    LET i == Min(FirstToPositions(q))
        r == Words(Slice(q, i + 3, Len(q)))
        F == { k \in 2..Len(r) : StartsWith(r[k], "from") }
    IN  IF F = {} THEN r ELSE Slice(r, 1, Min(F) - 1)

\* from_match: from\s+(.+)
FromGroup(w) ==
    LET F == { i \in 1..(Len(w) - 1) : EndsWith(w[i], "from") }
    IN  IF F = {} THEN None ELSE Slice(w, Min(F) + 1, Len(w))

\* first_entity_match: first\s+(.+?)\s+(song|track)
FirstEntityMatches(w) ==
    GroupMatches(w, { i \in 1..Len(w) : EndsWith(w[i], "first") }, FALSE,
                 {"song", "track"})

\* filter_value after the first-listen rule
FilterAfterFirst(q) ==
    LET w == Words(q)
        prev == FilterAfterPercentage(q)
        fv1 == IF FirstToPositions(q) # {} THEN FirstToGroup(q)
               ELSE IF FromGroup(w) # None THEN FromGroup(w)
               ELSE prev
    IN  IF ~FirstRule(q) THEN prev
        ELSE IF ~NonEmptyStr(fv1) /\ FirstEntityMatches(w) # {}
             THEN GroupOf(w, FirstEntityMatches(w), TRUE)
             ELSE fv1

\* common_phrases of parse_natural_language
common_phrases == {
    <<"what", "are", "my", "top">>, <<"what", "were", "my", "top">>,
    <<"my", "top">>, <<"my", "favorite">>, <<"are", "my", "top">> }

\* by\s+([A-Z][a-z]+(?:\s+[A-Z][a-z]+)*) on the original text, for kw "by"
\* and "from": the capitalized words after the first kw that has one
CapitalizedAfter(text, kw) ==
    LET w == Words(text)
        P == { i \in 1..(Len(w) - 1) : EndsWith(w[i], kw) /\ IsCapWord(w[i + 1]) }
    IN  IF P = {} THEN None
        ELSE LET i == Min(P)
                 E == { j \in (i + 1)..Len(w) :
                          \A k \in (i + 1)..j : IsCapWord(w[k]) }
             IN  Slice(w, i + 1, Max(E))

\* token t ends with "what" or "which"
IsWhatTok(t) == EndsWith(t, "what") \/ EndsWith(t, "which")

\* extra_filter: (?:what|which)\s+([a-z]+(?:\s+[a-z]+){0,3})\s+(song|track|album)
ExtraFilterMatches(w) ==
    { m \in GroupMatches(w, { i \in 1..Len(w) : IsWhatTok(w[i]) }, TRUE,
                         {"song", "track", "album"}) :
        m[2] - m[1] - 1 <= 4 }

\* fav_match: my favorite\s+([a-z\s]+?)\s+(song|track|album), as <<i, j>> with
\* "favorite" at word i
FavMatches(w) ==
    GroupMatches(w, { i \in 2..Len(w) : w[i] = "favorite" /\ EndsWith(w[i - 1], "my") },
                 TRUE, {"song", "track", "album"})

\* parsed["filter_value"]
filter_value(text) ==
    LET q == LowerQuery(text)
        w == Words(q)
        fv0 == FilterAfterFirst(q)
        fv1 == IF NonEmptyStr(fv0) THEN fv0
               ELSE IF CapitalizedAfter(text, "by") # None
                    THEN CapitalizedAfter(text, "by")
               ELSE IF CapitalizedAfter(text, "from") # None
                    THEN CapitalizedAfter(text, "from")
               ELSE fv0
        fv2 == IF ~NonEmptyStr(fv1) /\ entity_type(q) \in {"track", "album"}
                  /\ ExtraFilterMatches(w) # {}
                  /\ GroupOf(w, ExtraFilterMatches(w), FALSE) \notin common_phrases
               THEN Title(GroupOf(w, ExtraFilterMatches(w), FALSE))
               ELSE fv1
        fv3 == IF Has2(q, "my", "favorite") /\ ~NonEmptyStr(fv2)
                  /\ FavMatches(w) # {}
                  /\ GroupOf(w, FavMatches(w), TRUE) \notin common_phrases
               THEN Title(GroupOf(w, FavMatches(w), TRUE))
               ELSE fv2
    IN  IF NonEmptyStr(fv3) /\ Lower(fv3) \in common_phrases THEN None ELSE fv3

(***************************************************************************)
(* The attribute filters, the play count and the limit.                    *)
(***************************************************************************)
\* needle in q, for a needle of one or two words
HasPhrase(q, p) == IF Len(p) = 1 THEN Has(q, p[1]) ELSE Has2(q, p[1], p[2])

\* the first needle of the list that q contains, joined to one string
FirstHit(q, list) ==
    LET H == { i \in 1..Len(list) : HasPhrase(q, list[i]) }
    IN  IF H = {} THEN None ELSE list[Min(H)]

\* platforms, in the order of the code
platforms == << <<"ios">>, <<"android">>, <<"spotify">>, <<"apple", "music">>,
                <<"youtube">>, <<"soundcloud">>, <<"pandora">> >>

\* countries, in the order of the code
countries == << <<"mexico">>, <<"uk">>, <<"canada">>, <<"japan">>, <<"usa">> >>

\* parsed["country"]: the first country with "in <country>" in q
country(q) ==
    LET H == { i \in 1..Len(countries) : Has2(q, "in", countries[i][1]) }
    IN  IF H = {} THEN None ELSE countries[Min(H)]

\* parsed.get("shuffle"): None, <<TRUE>> or <<FALSE>>
shuffle(q) ==
    IF ~Has(q, "shuffle") THEN None
    ELSE IF Has2(q, "not", "shuffle") \/ Has2(q, "without", "shuffle")
         THEN Some(FALSE) ELSE Some(TRUE)

\* moods, in the order of the code
moods == << <<"chill">>, <<"sad">>, <<"happy">>, <<"focus">>, <<"high-energy">>,
            <<"workout">>, <<"rain">>, <<"snow">>, <<"holiday">>, <<"christmas">> >>

\* parsed["reason_start"]
reason_start(q) ==
    IF Has(q, "playlist") THEN <<"playlist">>
    ELSE IF Has2(q, "voice", "command") THEN <<"voice", "command">>
    ELSE None

\* play_count_match: exactly\s+(\d+)\s+times
play_count(q) ==
    LET w == Words(q)
        P == { i \in 1..(Len(w) - 2) :
                 /\ EndsWith(w[i], "exactly")
                 /\ AllDigits(w[i + 1])
                 /\ StartsWith(w[i + 2], "times") }
    IN  IF P = {} THEN None ELSE Some(NumPrefix[w[Min(P) + 1]])

\* the default limit of a parsed record
DefaultLimit == 5

\* the hard cap of the limit
MaxLimit == 20

\* the keywords of limit_match, each a sequence of words
LimitKeywords == { <<"top">>, <<"skipped">>, <<"most", "listened">>,
                   <<"most", "played">>, <<"streamed">>, <<"replay">>,
                   <<"replayed">>, <<"favorite">>, <<"binge-listen">> }

\* the keywords of the last check of the limit, which lacks two of them
FavoriteCheckKeywords == LimitKeywords \ { <<"favorite">>, <<"binge-listen">> }

\* a keyword of kws ends at word i of w
KeywordEndsAt(w, i, kws) ==
    \E kw \in kws :
        IF Len(kw) = 1 THEN EndsWith(w[i], kw[1])
        ELSE i > 1 /\ EndsWith(w[i - 1], kw[1]) /\ w[i] = kw[2]

\* the positions of (?:kw1|kw2|...)\s+(\d+) in w: the index of the number
KeywordNumberPositions(w, kws) ==
    { i \in 2..Len(w) : KeywordEndsAt(w, i - 1, kws) /\ HasDigits(w[i]) }

\* alt_limit_match: what\s+(\d+)\s+(tracks|albums|artists|songs)
AltLimitPositions(w) ==
    { i \in 2..(Len(w) - 1) :
        /\ EndsWith(w[i - 1], "what")
        /\ AllDigits(w[i])
        /\ StartsWithAny(w[i + 1], {"tracks", "albums", "artists", "songs"}) }

\* min(limit_val, 20)
ClampLimit(n) == IF n < MaxLimit THEN n ELSE MaxLimit

\* the limit after the explicit patterns
ExplicitLimit(q) ==
    LET w == Words(q)
        L == KeywordNumberPositions(w, LimitKeywords)
        A == AltLimitPositions(w)
    IN  IF L # {} THEN ClampLimit(NumPrefix[w[Min(L)]])
        ELSE IF A # {} THEN ClampLimit(NumPrefix[w[Min(A)]])
        ELSE DefaultLimit

\* re.search(r"\bnoun\b", query_text, re.IGNORECASE)
HasWord(text, noun) == \E i \in 1..Len(text) : LowerTok(text[i]) = noun

\* the entity noun occurs in the singular and not in the plural
SingularOnly(text, e) ==
    \/ e = "track" /\ HasWord(text, "song") /\ ~HasWord(text, "songs")
    \/ e = "album" /\ HasWord(text, "album") /\ ~HasWord(text, "albums")
    \/ e = "artist" /\ HasWord(text, "artist") /\ ~HasWord(text, "artists")

\* the limit after the singular heuristic
SingularLimit(text) ==
    LET q == LowerQuery(text)
    IN  IF KeywordNumberPositions(Words(q), LimitKeywords) = {}
           /\ SingularOnly(text, entity_type(q))
        THEN 1 ELSE ExplicitLimit(q)

\* parsed["limit"]
limit(text) ==
    LET q == LowerQuery(text)
    IN  IF Has(q, "favorite")
           /\ KeywordNumberPositions(Words(q), FavoriteCheckKeywords) = {}
        THEN DefaultLimit ELSE SingularLimit(text)

\* parsed["use_count"]
use_count(q) == Has2(q, "most", "times") \/ Has2(q, "most", "frequently")

\* token t consists of word characters and spaces only ([\w\s]+)
IsWordChars(t) == t \notin {"binge-listen", "high-energy"}

\* event_match: during (?:my|the) ([\w\s]+) on the original text, ignoring
\* case: the positions of "during"
EventPositions(text) ==
    { i \in 1..(Len(text) - 2) :
        /\ EndsWith(LowerTok(text[i]), "during")
        /\ LowerTok(text[i + 1]) \in {"my", "the"}
        /\ text[i + 2] # "" /\ IsWordChars(text[i + 2]) }

\* event_match.group(1).strip(): the words up to the first one that is not
\* made of word characters
EventPhrase(text) ==
    LET i == Min(EventPositions(text))
        E == { j \in (i + 2)..Len(text) :
                 \A k \in (i + 2)..j : IsWordChars(text[k]) }
    IN  Words(Slice(text, i + 2, Max(E)))

\* the record parse_natural_language has built before the event lookup
ParseText(text) ==
    LET q == LowerQuery(text)
    IN  [ year |-> year(q),
          day_of_week |-> day_of_week(q),
          time_after |-> time_after(q),
          time_before |-> time_before(q),
          season |-> season(q),
          month |-> month(q),
          action |-> action(q),
          entity_type |-> entity_type(q),
          limit |-> limit(text),
          filter_value |-> filter_value(text),
          platform |-> FirstHit(q, platforms),
          country |-> country(q),
          shuffle |-> shuffle(q),
          mood |-> FirstHit(q, moods),
          reason_start |-> reason_start(q),
          play_count |-> play_count(q),
          nth |-> nth(q),
          use_count |-> use_count(q),
          start_date |-> None,
          end_date |-> None,
          event_name |-> None,
          event_record_count |-> None ]

(***************************************************************************)
(* build_sql_query.  The SQL text is the sequence of its fragments; a      *)
(* parameter is a record [k: what it binds, n: an integer value, s: a      *)
(* string value].                                                          *)
(***************************************************************************)
\* an integer parameter
IntParam(k, n) == [k |-> k, n |-> n, s |-> <<>>]

\* a string parameter
StrParam(k, s) == [k |-> k, n |-> 0, s |-> s]

\* f"%{value}%"
Like(s) == <<"%">> \o s \o <<"%">>

\* base_join
base_join ==
    "FROM listening_history lh JOIN tracks t ON lh.track_id = t.track_id JOIN albums a ON t.album_id = a.album_id JOIN artists ar ON a.artist_id = ar.artist_id"

\* common_phrases of build_sql_query
build_common_phrases == common_phrases \cup { <<"were", "my", "top">> }

\* the months of a season, as the IN list of the clause
SeasonClause(s) ==
    IF s = "summer" THEN "EXTRACT(MONTH FROM lh.timestamp) IN (6, 7, 8)"
    ELSE IF s = "winter" THEN "EXTRACT(MONTH FROM lh.timestamp) IN (12, 1, 2)"
    ELSE IF s = "fall" THEN "EXTRACT(MONTH FROM lh.timestamp) IN (9, 10, 11)"
    ELSE "EXTRACT(MONTH FROM lh.timestamp) IN (3, 4, 5)"

\* one optional predicate: its clause and its parameters, or nothing
Pred(cond, clause, ps) ==
    IF cond THEN << [clause |-> clause, params |-> ps] >> ELSE <<>>

\* the filter value written into the clause, between quotes
FilterClauseInlined(p) == p.filter_value[1]

\* the clause of the filter value
FilterClause(p) == "ar.artist_name ILIKE %s"

\* the parameters of the filter value
FilterParams(p) == << StrParam("filter_value", Like(p.filter_value)) >>

\* a WHERE clause without the predicate on the user
UserPredOmitted(uid) == <<>>

\* the predicate on the user, added when self.user_id is not None
UserPred(uid) ==
    Pred(uid # None, "lh.user_id = %s",
         << IntParam("user_id", IF uid # None THEN uid[1] ELSE 0) >>)

\* the predicates of the WHERE clause, in the order of the code
WherePreds(uid, p) ==
       UserPred(uid)
    \o Pred(Truthy(p.year), "EXTRACT(YEAR FROM lh.timestamp) = %s",
            << IntParam("year", IF p.year # None THEN p.year[1] ELSE 0) >>)
    \o Pred(p.day_of_week # None, "EXTRACT(DOW FROM lh.timestamp) = %s",
            << IntParam("day_of_week",
                        IF p.day_of_week # None THEN p.day_of_week[1] ELSE 0) >>)
    \o Pred(p.time_after # None, "EXTRACT(HOUR FROM lh.timestamp) >= %s",
            << IntParam("time_after",
                        IF p.time_after # None THEN p.time_after[1] ELSE 0) >>)
    \o Pred(p.time_before # None, "EXTRACT(HOUR FROM lh.timestamp) < %s",
            << IntParam("time_before",
                        IF p.time_before # None THEN p.time_before[1] ELSE 0) >>)
    \o (IF p.month # None
        THEN Pred(TRUE, "EXTRACT(MONTH FROM lh.timestamp) = %s",
                  << IntParam("month", p.month[1]) >>)
        ELSE Pred(p.season # "", SeasonClause(p.season), <<>>))
    \o Pred(NonEmptyStr(p.filter_value)
              /\ Lower(p.filter_value) \notin build_common_phrases,
            FilterClause(p), FilterParams(p))
    \o Pred(NonEmptyStr(p.platform), "lh.platform ILIKE %s",
            << StrParam("platform", Like(p.platform)) >>)
    \o Pred(NonEmptyStr(p.country), "lh.country ILIKE %s",
            << StrParam("country", Like(p.country)) >>)
    \o Pred(p.shuffle # None, "lh.shuffle = %s",
            << StrParam("shuffle", IF p.shuffle = Some(TRUE)
                                   THEN <<"True">> ELSE <<"False">>) >>)
    \o Pred(NonEmptyStr(p.mood), "lh.moods ILIKE %s",
            << StrParam("mood", Like(p.mood)) >>)
    \o Pred(NonEmptyStr(p.reason_start), "lh.reason_start ILIKE %s",
            << StrParam("reason_start", Like(p.reason_start)) >>)
    \o Pred(Truthy(p.start_date) /\ Truthy(p.end_date),
            "lh.timestamp::date BETWEEN %s::date AND %s::date",
            << IntParam("start_date",
                        IF p.start_date # None THEN p.start_date[1] ELSE 0),
               IntParam("end_date",
                        IF p.end_date # None THEN p.end_date[1] ELSE 0) >>)

RECURSIVE JoinAnd(_)
\* " AND ".join(where_clauses)
JoinAnd(preds) ==
    IF Len(preds) = 0 THEN <<>>
    ELSE IF Len(preds) = 1 THEN << preds[1].clause >>
    ELSE << preds[1].clause, "AND" >> \o JoinAnd(Tail(preds))

\* where_clause
where_clause(preds) == IF Len(preds) = 0 THEN <<>> ELSE <<"WHERE">> \o JoinAnd(preds)

RECURSIVE WhereParams(_)
\* params, after the WHERE predicates
WhereParams(preds) ==
    IF Len(preds) = 0 THEN <<>> ELSE preds[1].params \o WhereParams(Tail(preds))

\* select_fields of the single-row queries; ts is the alias of the timestamp
SingleSelect(e, ts) ==
    IF e = "track" THEN <<"t.track_name AS entity", "ar.artist_name AS sub_entity", ts>>
    ELSE IF e = "album"
         THEN <<"a.album_name AS entity", "ar.artist_name AS sub_entity", ts>>
    ELSE <<"ar.artist_name AS entity", ts>>

\* select_fields of the grouped queries
GroupSelect(e) ==
    IF e = "track" THEN <<"t.track_name AS entity", "ar.artist_name AS sub_entity">>
    ELSE IF e = "album" THEN <<"a.album_name AS entity", "ar.artist_name AS sub_entity">>
    ELSE <<"ar.artist_name AS entity">>

\* group_clause
group_clause(e) ==
    IF e = "track" THEN "GROUP BY t.track_name, ar.artist_name"
    ELSE IF e = "album" THEN "GROUP BY a.album_name, ar.artist_name"
    ELSE "GROUP BY ar.artist_name"

\* the branch of build_sql_query that serves a parsed record
Shape(p) ==
    IF p.action = "first" THEN "first"
    ELSE IF p.action = "percentage" THEN "percentage"
    ELSE IF p.action = "nth" /\ Truthy(p.nth) THEN "nth"
    ELSE IF p.action = "last" THEN "last"
    ELSE IF p.action = "skipped" THEN "skipped"
    ELSE IF p.action = "top" THEN "top"
    ELSE "error"

\* offset_val
offset_val(p) == IF p.nth[1] - 1 > 0 THEN p.nth[1] - 1 ELSE 0

\* effective_limit
effective_limit(p) == p.limit * 2

\* having_clause: "" without a play count
having_clause(p) == IF p.play_count # None THEN "HAVING COUNT(*) = %s" ELSE ""

\* the SQL text build_sql_query returns
BuildSql(uid, p) ==
    LET w == where_clause(WherePreds(uid, p))
        sh == Shape(p)
    IN  IF sh = "first"
        THEN <<"SELECT">> \o SingleSelect(p.entity_type, "lh.timestamp AS first_listen")
             \o <<base_join>> \o w \o <<"ORDER BY lh.timestamp ASC", "LIMIT 1;">>
        ELSE IF sh = "percentage"
        THEN <<"SELECT", "COUNT(*) FILTER (WHERE lh.skipped = TRUE) AS skipped_count",
               "COUNT(*) AS total_count", base_join>> \o w \o <<";">>
        ELSE IF sh = "nth"
        THEN <<"SELECT">> \o SingleSelect(p.entity_type, "lh.timestamp AS listen_time")
             \o <<base_join>> \o w \o <<"ORDER BY lh.timestamp ASC", "OFFSET %s LIMIT 1;">>
        ELSE IF sh = "last"
        THEN <<"SELECT">> \o SingleSelect(p.entity_type, "lh.timestamp AS listen_time")
             \o <<base_join>> \o w \o <<"ORDER BY lh.timestamp DESC", "LIMIT 1;">>
        ELSE IF sh = "skipped"
        THEN <<"SELECT">> \o GroupSelect(p.entity_type) \o <<"COUNT(*) AS skip_count">>
             \o <<base_join>> \o w \o <<group_clause(p.entity_type)>>
             \o (IF having_clause(p) # "" THEN <<having_clause(p)>> ELSE <<>>)
             \o <<"ORDER BY skip_count DESC LIMIT %s;">>
        ELSE IF sh = "top"
        THEN <<"SELECT">> \o GroupSelect(p.entity_type)
             \o (IF p.use_count THEN <<"COUNT(*) AS play_count">>
                 ELSE <<"SUM(lh.ms_played) AS total_ms">>)
             \o <<base_join>> \o w \o <<group_clause(p.entity_type)>>
             \o (IF p.use_count THEN <<"ORDER BY play_count DESC LIMIT %s;">>
                 ELSE <<"ORDER BY total_ms DESC LIMIT %s;">>)
        ELSE <<"SELECT %s AS error_msg;">>

\* the parameter list with the limit appended before the play count
BuildParamsLimitFirst(uid, p) ==
    LET wp == WhereParams(WherePreds(uid, p))
        sh == Shape(p)
    IN  IF sh \in {"first", "percentage", "last"} THEN wp
        ELSE IF sh = "nth" THEN Append(wp, IntParam("offset", offset_val(p)))
        ELSE IF sh = "skipped"
        THEN wp
             \o << IntParam("limit", effective_limit(p)) >>
             \o (IF having_clause(p) # ""
                 THEN << IntParam("play_count", p.play_count[1]) >> ELSE <<>>)
        ELSE IF sh = "top" THEN Append(wp, IntParam("limit", effective_limit(p)))
        ELSE << StrParam("error_msg", <<"No recognized action in your query.">>) >>

\* the parameter list build_sql_query returns
BuildParams(uid, p) ==
    LET wp == WhereParams(WherePreds(uid, p))
        sh == Shape(p)
    IN  IF sh \in {"first", "percentage", "last"} THEN wp
        ELSE IF sh = "nth" THEN Append(wp, IntParam("offset", offset_val(p)))
        ELSE IF sh = "skipped"
        THEN wp
             \o (IF having_clause(p) # ""
                 THEN << IntParam("play_count", p.play_count[1]) >> ELSE <<>>)
             \o << IntParam("limit", effective_limit(p)) >>
        ELSE IF sh = "top" THEN Append(wp, IntParam("limit", effective_limit(p)))
        ELSE << StrParam("error_msg", <<"No recognized action in your query.">>) >>

(***************************************************************************)
(* Result rows.  A cell is a record [t: its Python type, s: its text, n:   *)
(* its number]; a row is a sequence of cells.                              *)
(***************************************************************************)
\* a str cell
Str(s) == [t |-> "str", s |-> s, n |-> 0]

\* an int cell
Int_(n) == [t |-> "int", s |-> "", n |-> n]

\* a datetime cell; s is what strftime("%Y-%m-%d %I:%M %p") gives
Ts(s) == [t |-> "datetime", s |-> s, n |-> 0]

\* the messages a store failure can carry, str(e)
ErrorMessages == {"connection refused"}

\* the sentinel execute_query returns on a store failure
Sentinel(msg) == << << Str("Error executing query"), Str(msg) >> >>

\* rows is the store-failure sentinel
IsSentinel(rows) == \E m \in ErrorMessages : rows = Sentinel(m)

\* x.strip().lower() of the names of the store: <<name, normal form>>
NormPairs == {
    <<"Drake", "drake">>, <<"Nights", "nights">>, <<"Blonde", "blonde">>,
    <<"Unknown Artist", "unknown artist">>, <<" UNKNOWN ARTIST ", "unknown artist">>,
    <<"Unknown Track", "unknown track">>, <<"Unknown Album", "unknown album">>,
    <<"Error executing query", "error executing query">>,
    <<"No recognized action in your query.", "no recognized action in your query.">> }

\* x.strip().lower()
StripLower(x) == IF \E p \in NormPairs : p[1] = x
                 THEN (CHOOSE p \in NormPairs : p[1] = x)[2] ELSE x

(***************************************************************************)
(* format_response.  The rendered text is the sequence of its pieces       *)
(* [k: "lit" for literal text or the role of a rendered value, s: text,    *)
(* n: number]; the outcome is [raised, html].                              *)
(***************************************************************************)
\* literal text
Lit(s) == [k |-> "lit", s |-> <<s>>, n |-> 0]

\* a rendered value
Val(k, s, n) == [k |-> k, s |-> s, n |-> n]

\* str(cell) inside an f-string, in role k
Show(k, cell) == Val(k, <<cell.s>>, cell.n)

\* format_response returns html
Returned(html) == [raised |-> FALSE, html |-> html]

\* format_response raises
Raised == [raised |-> TRUE, html |-> <<>>]

\* the suffix by the last digit alone, without the rule for 11, 12 and 13
OrdinalSuffixByLastDigit(n) ==
    IF n % 10 = 1 THEN "st"
    ELSE IF n % 10 = 2 THEN "nd"
    ELSE IF n % 10 = 3 THEN "rd"
    ELSE "th"

\* the suffix ordinal(n) appends to str(n)
OrdinalSuffix(n) ==
    IF 11 <= (n % 100) /\ (n % 100) <= 13 THEN "th"
    ELSE IF n % 10 = 1 THEN "st"
    ELSE IF n % 10 = 2 THEN "nd"
    ELSE IF n % 10 = 3 THEN "rd"
    ELSE "th"

\* ordinal(n), as a piece: the number and its suffix
ordinal(n) == Val("ordinal", <<OrdinalSuffix(n)>>, n)

\* format_hour(hour), as a piece: the 12-hour number and AM or PM
format_hour(hour) ==
    LET suffix == IF hour >= 12 THEN "PM" ELSE "AM"
        h1 == IF hour >= 12 /\ hour > 12 THEN hour - 12 ELSE hour
        h2 == IF h1 = 0 THEN 12 ELSE h1
    IN  Val("hour", <<suffix>>, h2)

\* ts_formatted: strftime of a datetime, str(ts) of anything else
TsFormatted(cell) == Show("timestamp", cell)

\* the sentence of a single-row answer: the lead text, the names of the row
\* and the time
SingleSentence(lead, e, row) ==
    LET ts == TsFormatted(row[Len(row)])
    IN  IF e = "artist"
        THEN lead \o << Show("entity", row[1]), Lit("on"), ts, Lit(".</h2>") >>
        ELSE IF e \in {"track", "album"}
        THEN lead \o << Show("entity", row[1]), Lit("by"), Show("artist", row[2]),
                        Lit("on"), ts, Lit(".</h2>") >>
        ELSE lead \o << Lit("on"), ts, Lit(".</h2>") >>

\* the fraction skipped / total without the factor 100
PercentUnscaled(skipped, total) == (100 * skipped) \div total

\* percentage, in hundredths of a percent, as "{percentage:.2f}" shows the
\* float (skipped / total) * 100: the nearest hundredth, a tie going to the
\* even one (3.125 is shown as 3.12)
PercentHundredths(skipped, total) ==
    LET q == (10000 * skipped) \div total
        r == (10000 * skipped) % total
    IN  IF 2 * r > total \/ (2 * r = total /\ q % 2 = 1) THEN q + 1 ELSE q

\* the percentage branch
FormatPercentage(p, results) ==
    IF Len(results) = 0 THEN
        Returned(<< Lit("<h2>No data available to calculate percentage.</h2>") >>)
    ELSE IF Len(results[1]) < 2 THEN Raised
    ELSE IF results[1][2].t = "int" /\ results[1][2].n = 0 THEN
        Returned(<< Lit("<h2>No data available to calculate percentage.</h2>") >>)
    ELSE IF Len(results[1]) # 2 THEN Raised
    ELSE IF results[1][1].t # "int" \/ results[1][2].t # "int" THEN Raised
    ELSE Returned(<< Lit("<h2>"),
                     Val("percentage", <<"%">>,
                         PercentHundredths(results[1][1].n, results[1][2].n)),
                     Lit("of my"),
                     Val("filter_value",
                         IF p.filter_value = None THEN <<"None">> ELSE p.filter_value,
                         0),
                     Lit("plays were skipped.</h2>") >>)

\* the first branch
FormatFirst(p, results) ==
    IF Len(results) = 0 THEN
        Returned(<< Lit("<h2>No matching record found for your first listen query.</h2>") >>)
    ELSE IF p.entity_type \in {"track", "album"} /\ Len(results[1]) < 2 THEN Raised
    ELSE Returned(SingleSentence(<< Lit("<h2>You first listened to") >>,
                                 p.entity_type, results[1]))

\* the nth branch
FormatNth(p, results) ==
    IF Len(results) = 0 THEN
        Returned(<< Lit("<h2>No matching record found for your"),
                    Val("nth", <<>>, p.nth[1]),
                    Lit("streamed track query.</h2>") >>)
    ELSE IF p.entity_type \in {"track", "album"} /\ Len(results[1]) < 2 THEN Raised
    ELSE Returned(SingleSentence(<< Lit("<h2>Your"), ordinal(p.nth[1]),
                                    Lit("streamed"), Lit(p.entity_type), Lit("was") >>,
                                 p.entity_type, results[1]))

\* the last branch
FormatLast(p, results) ==
    IF Len(results) = 0 THEN
        Returned(<< Lit("<h2>No matching record found for your last played query.</h2>") >>)
    ELSE IF p.entity_type \in {"track", "album"} /\ Len(results[1]) < 2 THEN Raised
    ELSE Returned(SingleSentence(<< Lit("<h2>Your last played"), Lit(p.entity_type),
                                    Lit("was") >>,
                                 p.entity_type, results[1]))

\* day_names
day_names == << "Sundays", "Mondays", "Tuesdays", "Wednesdays", "Thursdays",
                "Fridays", "Saturdays" >>

\* conditions: the clauses of the header, in the order of the code
Conditions(p) ==
       (IF p.day_of_week # None
        THEN << Lit("on"), Lit(day_names[p.day_of_week[1] + 1]) >> ELSE <<>>)
    \o (IF Truthy(p.year) THEN << Lit("in"), Val("year", <<>>, p.year[1]) >> ELSE <<>>)
    \o (IF p.time_after # None /\ p.time_before = None
        THEN << Lit("after"), format_hour(p.time_after[1]) >> ELSE <<>>)
    \o (IF p.time_before # None /\ p.time_after = None
        THEN << Lit("before"), format_hour(p.time_before[1]) >> ELSE <<>>)
    \o (IF p.time_after # None /\ p.time_before # None
        THEN << Lit("between"), format_hour(p.time_after[1]), Lit("and"),
                format_hour(p.time_before[1]) >> ELSE <<>>)
    \o (IF p.month # None
        THEN << Lit("in"), Lit(Title(<<MonthNames[p.month[1]]>>)[1]) >>
        ELSE IF p.season # "" THEN << Lit("during"), Lit(p.season) >> ELSE <<>>)
    \o (IF NonEmptyStr(p.platform)
        THEN << Lit("on"), Val("platform", p.platform, 0) >> ELSE <<>>)
    \o (IF NonEmptyStr(p.country)
        THEN << Lit("in"), Val("country", p.country, 0) >> ELSE <<>>)
    \o (IF NonEmptyStr(p.mood)
        THEN << Lit("with a"), Val("mood", p.mood, 0), Lit("mood") >> ELSE <<>>)
    \o (IF NonEmptyStr(p.reason_start)
        THEN << Lit("started via"), Val("reason_start", p.reason_start, 0) >>
        ELSE <<>>)

\* header_text, inside its <h2>
Header(p) ==
       << Lit("<h2>Your"),
          Lit(IF p.action = "skipped" THEN "most skipped" ELSE "top"),
          Lit(IF p.entity_type = "track" THEN "songs"
              ELSE IF p.entity_type = "album" THEN "albums" ELSE "artists") >>
    \o Conditions(p)
    \o (IF NonEmptyStr(p.event_name)
        THEN << Lit("during your"), Val("event_name", p.event_name, 0) >> ELSE <<>>)
    \o << Lit(":</h2>") >>

\* the placeholder name of a column
Placeholder(column) ==
    IF column = "track" THEN "unknown track"
    ELSE IF column = "album" THEN "unknown album"
    ELSE "unknown artist"

\* the comparison with the placeholder without strip() and lower()
NameOkExact(row, i, column) ==
    Len(row) >= i /\ row[i].t = "str" /\ row[i].s # Placeholder(column)

\* cell i of row exists, is a str and is not the placeholder of the column
NameOk(row, i, column) ==
    Len(row) >= i /\ row[i].t = "str" /\ StripLower(row[i].s) # Placeholder(column)

\* row[i].strip() raises: no cell i, or a cell that is no str
NameRaises(row, i) == Len(row) < i \/ row[i].t # "str"

\* is_valid_row(row, entity_type) raises
RowRaises(row, e) ==
    IF e \in {"track", "album"}
    THEN NameRaises(row, 1) \/ (NameOk(row, 1, e) /\ NameRaises(row, 2))
    ELSE IF e = "artist" THEN NameRaises(row, 1)
    ELSE FALSE

\* is_valid_row(row, entity_type)
is_valid_row(row, e) ==
    IF e \in {"track", "album"} THEN NameOk(row, 1, e) /\ NameOk(row, 2, "artist")
    ELSE IF e = "artist" THEN NameOk(row, 1, "artist")
    ELSE TRUE

\* filtered_results
filtered_results(p, results) ==
    SelectSeq(results, LAMBDA row : is_valid_row(row, p.entity_type))

\* the filtered rows without the truncation to limit
AllFilteredResults(p, results) == filtered_results(p, results)

\* valid_results: filtered_results[:limit]
valid_results(p, results) ==
    LET f == filtered_results(p, results)
    IN  Slice(f, 1, IF p.limit < Len(f) THEN p.limit ELSE Len(f))

\* one <li> of the list
ListItem(e, row) ==
    IF e \in {"track", "album"}
    THEN << Lit("<li>"), Show("entity", row[1]), Lit("by"), Show("artist", row[2]),
            Lit("</li>") >>
    ELSE << Lit("<li>"), Show("entity", row[1]), Lit("</li>") >>

RECURSIVE ListItems(_, _)
\* the <li> of the rows, in their order
ListItems(e, rows) ==
    IF Len(rows) = 0 THEN <<>> ELSE ListItem(e, rows[1]) \o ListItems(e, Tail(rows))

\* one explanation for every event, whatever its window holds
NoResultsWhateverCount(p) ==
    IF NonEmptyStr(p.event_name)
    THEN << Lit("<p>No matching results found for your query during this event.</p>") >>
    ELSE << Lit("<p>No results found for your query.</p>") >>

\* the explanation rendered in place of an empty list
NoResults(p) ==
    IF NonEmptyStr(p.event_name)
    THEN IF p.event_record_count = Some(0)
         THEN << Lit("<p>No listening data found during this event period.</p>") >>
              \o (IF Truthy(p.start_date) /\ Truthy(p.end_date)
                  THEN << Lit("<p><small>Event period:"),
                          Val("start_date", <<>>, p.start_date[1]), Lit("to"),
                          Val("end_date", <<>>, p.end_date[1]), Lit("</small></p>") >>
                  ELSE <<>>)
         ELSE << Lit("<p>No matching results found for your query during this event.</p>") >>
    ELSE << Lit("<p>No results found for your query.</p>") >>

\* the top / skipped branch
FormatList(p, results) ==
    IF \E i \in 1..Len(results) : RowRaises(results[i], p.entity_type) THEN Raised
    ELSE IF Len(valid_results(p, results)) > 0
    THEN Returned(Header(p) \o << Lit("<ul class='result-list'>") >>
                  \o ListItems(p.entity_type, valid_results(p, results))
                  \o << Lit("</ul>") >>)
    ELSE Returned(Header(p) \o NoResults(p))

\* format_response(parsed, results)
format_response(p, results) ==
    IF p.action = "first" THEN FormatFirst(p, results)
    ELSE IF p.action = "percentage" THEN FormatPercentage(p, results)
    ELSE IF p.action = "nth" /\ Truthy(p.nth) THEN FormatNth(p, results)
    ELSE IF p.action = "last" THEN FormatLast(p, results)
    ELSE FormatList(p, results)

(***************************************************************************)
(* The store, as far as the engine reads it.                               *)
(***************************************************************************)
\* the user ids of the store
Users == {1, 2}

\* the table user_events; a date is a day number, an open event has no end
user_events == {
    [user_id |-> 1, name |-> <<"trip">>, start_date |-> 3, end_date |-> Some(5)],
    [user_id |-> 2, name |-> <<"road", "trip">>, start_date |-> 7, end_date |-> None] }

\* datetime.now().date(), as a day number
Today == 9

\* the numbers of listening records an event window can hold
RecordCounts == {0, 2}

\* s is a contiguous part of t (LIKE %s%)
IsInfix(s, t) ==
    \E i \in 0..(Len(t) - Len(s)) : \A k \in 1..Len(s) : t[i + k] = s[k]

\* the events of user uid whose lower-cased name contains the phrase
MatchingEvents(uid, phrase) ==
    { e \in user_events : e.user_id = uid /\ IsInfix(Lower(phrase), Lower(e.name)) }

\* ORDER BY similarity(...) DESC LIMIT 1: the match with the shortest name
BestEvent(uid, phrase) ==
    CHOOSE e \in MatchingEvents(uid, phrase) :
        \A f \in MatchingEvents(uid, phrase) : Len(e.name) <= Len(f.name)

\* the names the store holds in an entity column
EntityNames(column) ==
    IF column = "track" THEN {"Nights", "Unknown Track", "Unknown Artist"}
    ELSE IF column = "album" THEN {"Blonde", "Unknown Album", "Unknown Artist"}
    ELSE {"Drake", "Unknown Artist", " UNKNOWN ARTIST ", "Unknown Track"}

\* the names the store holds in the artist column next to a track or album
SubEntityNames == {"Drake", "Unknown Artist"}

\* the name cells of one row of a query about entity type e
NameCells(e) ==
    IF e \in {"track", "album"}
    THEN { << Str(a), Str(b) >> : a \in EntityNames(e), b \in SubEntityNames }
    ELSE { << Str(a) >> : a \in EntityNames("artist") }

\* the rows of a grouped query: the names and the metric
GroupedRows(e) == { Append(c, Int_(7)) : c \in NameCells(e) }

\* the rows of a single-row query: the names and the timestamp
SingleRows(e) == { Append(c, Ts("2023-01-05 10:30 AM")) : c \in NameCells(e) }

\* the rows of the percentage query: skipped_count and total_count
PercentageRows == {
    << Int_(0), Int_(0) >>, << Int_(5), Int_(20) >>, << Int_(2), Int_(3) >>,
    << Int_(1), Int_(32) >>, << Int_(20), Int_(20) >> }

\* the sequences of at most n elements of S
SeqsUpTo(S, n) == UNION { [1..k -> S] : k \in 0..n }

\* the results the store can return for the query of parsed record p with
\* parameters ps: LIMIT bounds the number of rows of a grouped query
StoreResults(p, ps) ==
    LET sh == Shape(p)
    IN  IF sh \in {"first", "nth", "last"}
        THEN SeqsUpTo(SingleRows(p.entity_type), 1)
        ELSE IF sh = "percentage" THEN { << r >> : r \in PercentageRows }
        ELSE IF sh \in {"top", "skipped"}
        THEN SeqsUpTo(GroupedRows(p.entity_type),
                      IF ps[Len(ps)].n < MaxRows THEN ps[Len(ps)].n ELSE MaxRows)
        ELSE { << << Str(ps[1].s[1]) >> >> }

(***************************************************************************)
(* The state of one pipeline run: a MusicMuse object and a call of         *)
(* execute_query followed by format_response, as in the route music_muse.  *)
(***************************************************************************)
VARIABLES
    user_id,     \* self.user_id: None or <<id>>
    pc,          \* the position of the run
    query_text,  \* the text of the query, <<>> when it is no longer read
    parsed,      \* the parsed record
    sql,         \* the SQL text build_sql_query returned
    params,      \* the parameter list build_sql_query returned
    results,     \* the rows execute_query returns
    response,    \* the outcome of format_response
    open_conns,  \* the store connections opened and not closed by the code
    calls,       \* how often each store operation was issued
    error        \* the exception execute_query caught: None or <<[at, msg]>>

(***************************************************************************)
(* What lies outside one pipeline run: the requests a threaded server has  *)
(* suspended, and the state of the live scrobbler.                         *)
(***************************************************************************)
VARIABLES
    runs,        \* the requests of the route music_muse: run |-> its frame
    current,     \* the run whose frame is in the variables above, 0 for none
    history,     \* the committed rows of table listening_history, a bag
    unique_key,  \* the table has the constraint UNIQUE (user_id, track_id, timestamp)
    tasks        \* the scrobble tasks: task |-> its position and locals

\* the variables no step of a pipeline run touches
others == << runs, current, history, unique_key, tasks >>

vars == << user_id, pc, query_text, parsed, sql, params, results, response,
           open_conns, calls, error, others >>

\* one request and no scrobbler
Alone ==
    /\ runs = <<>>
    /\ current = 0
    /\ history = EmptyBag
    /\ unique_key = FALSE
    /\ tasks = <<>>

RECURSIVE TextsFrom(_, _)
\* the texts of at most n phrases of P
TextsFrom(P, n) ==
    IF n = 0 THEN { <<>> }
    ELSE TextsFrom(P, n - 1) \cup { t \o ph : t \in TextsFrom(P, n - 1), ph \in P }

\* the query texts of the model
Texts == TextsFrom(Phrases, MaxPhrases)

\* the store operations that are counted
StoreOps == {"connect", "diagnostic", "main", "event_connect", "event_lookup"}

\* the state after MusicMuse(db_params, user_id)
Init ==
    /\ Alone
    /\ user_id \in {None} \cup { Some(u) : u \in Users }
    /\ pc = "idle"
    /\ query_text = <<>>
    /\ parsed = ParseText(<<>>)
    /\ sql = <<>>
    /\ params = <<>>
    /\ results = <<>>
    /\ response = Returned(<<>>)
    /\ open_conns = 0
    /\ calls = [o \in StoreOps |-> 0]
    /\ error = None

\* calls, with one more call of op
Called(op) == [calls EXCEPT ![op] = @ + 1]

\* execute_query calls parse_natural_language on a text of T, which extracts
\* the fields and then looks for an event reference
ParseOf(T) ==
    /\ pc = "idle"
    /\ \E text \in T :
        /\ query_text' = text
        /\ parsed' = ParseText(text)
        /\ pc' = IF EventPositions(text) # {} /\ user_id # None
                 THEN "event_connect" ELSE "build"
    /\ UNCHANGED << others, user_id, sql, params, results, response, open_conns, calls,
                    error >>

\* execute_query(query_text) for the query texts of the model
Parse == ParseOf(Texts)

\* get_event_dates connects to the store
EventConnect ==
    /\ pc = "event_connect"
    /\ calls' = Called("event_connect")
    /\ \/ /\ open_conns' = open_conns + 1
          /\ pc' = "event_lookup"
       \/ \* connect raises: get_event_dates returns None
          /\ open_conns' = open_conns
          /\ pc' = "build"
    /\ UNCHANGED << others, user_id, query_text, parsed, sql, params, results, response,
                    error >>

\* the record parse_natural_language holds after a successful lookup
WithEvent(p, phrase, e, count) ==
    [p EXCEPT !.start_date = Some(e.start_date),
              !.end_date = IF e.end_date # None THEN e.end_date ELSE Some(Today),
              !.event_name = phrase,
              !.event_record_count = Some(count)]

\* the event name recorded although get_event_dates returned None
NoEventNamed(p, phrase) == [p EXCEPT !.event_name = phrase]

\* the record parse_natural_language holds after get_event_dates returned None
NoEvent(p, phrase) == p

\* get_event_dates queries the store and closes its connection; the result
\* is merged into the parsed record
EventLookup ==
    /\ pc = "event_lookup"
    /\ calls' = Called("event_lookup")
    /\ open_conns' = open_conns - 1
    /\ pc' = "build"
    /\ LET phrase == EventPhrase(query_text)
       IN  \/ /\ MatchingEvents(user_id[1], phrase) # {}
              /\ \E count \in RecordCounts :
                    parsed' = WithEvent(parsed, phrase,
                                        BestEvent(user_id[1], phrase), count)
           \/ /\ MatchingEvents(user_id[1], phrase) = {}
              /\ parsed' = NoEvent(parsed, phrase)
           \/ \* a query raises: get_event_dates returns None
              parsed' = NoEvent(parsed, phrase)
    /\ UNCHANGED << others, user_id, query_text, sql, params, results, response, error >>

\* execute_query calls build_sql_query; the text is not read again
Build ==
    /\ pc = "build"
    /\ sql' = BuildSql(user_id, parsed)
    /\ params' = BuildParams(user_id, parsed)
    /\ query_text' = <<>>
    /\ pc' = "connect"
    /\ UNCHANGED << others, user_id, parsed, results, response, open_conns, calls, error >>

\* a failed main query that is tried again
RetryMain(at) == IF at = "main" THEN "main" ELSE "done"

\* the position after the store operation at raised: execute_query returns
AfterFailure(at) == "done"

\* except Exception as e: the results become the sentinel
Fail(at, msg) ==
    /\ error' = Some([at |-> at, msg |-> msg])
    /\ results' = Sentinel(msg)
    /\ pc' = AfterFailure(at)

\* execute_query connects to the store; leaving the with block of a psycopg2
\* connection ends the transaction and does not close the connection
Connect ==
    /\ pc = "connect"
    /\ calls' = Called("connect")
    /\ \/ /\ open_conns' = open_conns + 1
          /\ pc' = IF NonEmptyStr(parsed.event_name) THEN "diagnostic" ELSE "main"
          /\ UNCHANGED << results, error >>
       \/ /\ open_conns' = open_conns
          /\ \E msg \in ErrorMessages : Fail("connect", msg)
    /\ UNCHANGED << others, user_id, query_text, parsed, sql, params, response >>

\* the checks execute_query runs before the main query of an event query
Diagnostic ==
    /\ pc = "diagnostic"
    /\ calls' = Called("diagnostic")
    /\ \/ /\ pc' = "main"
          /\ UNCHANGED << results, error >>
       \/ \E msg \in ErrorMessages : Fail("diagnostic", msg)
    /\ UNCHANGED << others, user_id, query_text, parsed, sql, params, response, open_conns >>

\* the main query runs and its rows are fetched
MainQuery ==
    /\ pc = "main"
    /\ calls' = Called("main")
    /\ \/ \E rows \in StoreResults(parsed, params) :
            /\ results' = rows
            /\ error' = error
            /\ pc' = IF Len(rows) = 0 /\ NonEmptyStr(parsed.event_name)
                        /\ Truthy(parsed.start_date) /\ Truthy(parsed.end_date)
                     THEN "recheck" ELSE "done"
       \/ \E msg \in ErrorMessages : Fail("main", msg)
    /\ UNCHANGED << others, user_id, query_text, parsed, sql, params, response, open_conns >>

\* the simpler queries execute_query runs after an empty result of an event
\* query
Recheck ==
    /\ pc = "recheck"
    /\ calls' = Called("diagnostic")
    /\ \/ /\ pc' = "done"
          /\ UNCHANGED << results, error >>
       \/ \E msg \in ErrorMessages : Fail("recheck", msg)
    /\ UNCHANGED << others, user_id, query_text, parsed, sql, params, response, open_conns >>

\* execute_query has returned (parsed, results); the route calls
\* format_response
Format ==
    /\ pc = "done"
    /\ response' = format_response(parsed, results)
    /\ pc' = "formatted"
    /\ UNCHANGED << others, user_id, query_text, parsed, sql, params, results, open_conns,
                    calls, error >>

Next ==
    \/ Parse
    \/ EventConnect
    \/ EventLookup
    \/ Build
    \/ Connect
    \/ Diagnostic
    \/ MainQuery
    \/ Recheck
    \/ Format

Spec == Init /\ [][Next]_vars

(***************************************************************************)
(* The same run on other vocabularies: texts about the limit, about the    *)
(* time of day and about ordinals.                                         *)
(***************************************************************************)
\* the phrases of the texts about the limit
LimitPhrases == {
    <<"favorite">>, <<"top">>, <<"3">>, <<"30">>, <<"song">>, <<"songs">>,
    <<"track">>, <<"during", "my", "trip">> }

\* the texts about the limit
LimitTexts == TextsFrom(LimitPhrases, MaxPhrases)

\* execute_query(query_text) for the texts about the limit
LimitParse == ParseOf(LimitTexts)

LimitNext ==
    \/ LimitParse
    \/ EventConnect
    \/ EventLookup
    \/ Build
    \/ Connect
    \/ Diagnostic
    \/ MainQuery
    \/ Recheck
    \/ Format

SpecLimit == Init /\ [][LimitNext]_vars

\* the phrases of the texts about the time of day
ClockPhrases == {
    <<"after", "8pm">>, <<"before", "8", "am">>, <<"after", "12am">>,
    <<"before", "12pm">>, <<"between", "9am", "and", "5pm">>, <<"top">>,
    <<"during", "my", "trip">> }

\* the texts about the time of day
ClockTexts == TextsFrom(ClockPhrases, MaxPhrases)

\* execute_query(query_text) for the texts about the time of day
ClockParse == ParseOf(ClockTexts)

ClockNext ==
    \/ ClockParse
    \/ EventConnect
    \/ EventLookup
    \/ Build
    \/ Connect
    \/ Diagnostic
    \/ MainQuery
    \/ Recheck
    \/ Format

SpecClock == Init /\ [][ClockNext]_vars

\* the phrases of the texts about ordinals
OrdinalPhrases == {
    <<"1st">>, <<"22nd">>, <<"3rd">>, <<"4th">>, <<"11th">>, <<"12th">>, <<"13th">>,
    <<"101st">>, <<"112th">>, <<"song">>, <<"during", "my", "trip">> }

\* the texts about ordinals
OrdinalTexts == TextsFrom(OrdinalPhrases, MaxPhrases)

\* execute_query(query_text) for the texts about ordinals
OrdinalParse == ParseOf(OrdinalTexts)

OrdinalNext ==
    \/ OrdinalParse
    \/ EventConnect
    \/ EventLookup
    \/ Build
    \/ Connect
    \/ Diagnostic
    \/ MainQuery
    \/ Recheck
    \/ Format

SpecOrdinal == Init /\ [][OrdinalNext]_vars

\* the phrases of the texts about the filter: the meta-phrases of the two
\* stoplists, a noun, and an artist after "by"
FilterPhrases == {
    <<"what">>, <<"were", "my", "top">>, <<"are", "my", "top">>, <<"my", "favorite">>,
    <<"songs">>, <<"by", "Drake">>, <<"during", "my", "trip">> }

\* the texts about the filter
FilterTexts == TextsFrom(FilterPhrases, MaxPhrases)

\* execute_query(query_text) for the texts about the filter
FilterParse == ParseOf(FilterTexts)

FilterNext ==
    \/ FilterParse
    \/ EventConnect
    \/ EventLookup
    \/ Build
    \/ Connect
    \/ Diagnostic
    \/ MainQuery
    \/ Recheck
    \/ Format

SpecFilter == Init /\ [][FilterNext]_vars

\* the phrases of the texts about the action: one keyword of each rule, and
\* "last"
LastPhrases == {
    <<"last">>, <<"last", "listen">>, <<"first">>, <<"percentage">>, <<"skip">>,
    <<"2nd">>, <<"song">>, <<"during", "my", "trip">> }

\* the texts about the action
LastTexts == TextsFrom(LastPhrases, MaxPhrases)

\* execute_query(query_text) for the texts about the action
LastParse == ParseOf(LastTexts)

LastNext ==
    \/ LastParse
    \/ EventConnect
    \/ EventLookup
    \/ Build
    \/ Connect
    \/ Diagnostic
    \/ MainQuery
    \/ Recheck
    \/ Format

SpecLast == Init /\ [][LastNext]_vars

\* the phrases of the texts about years after the keywords of the hour rules
YearPhrases == {
    <<"after", "2020">>, <<"before", "2023">>, <<"2023">>, <<"after", "8pm">>,
    <<"top">>, <<"song">>, <<"during", "my", "trip">> }

\* the texts about years
YearTexts == TextsFrom(YearPhrases, MaxPhrases)

\* execute_query(query_text) for the texts about years
YearParse == ParseOf(YearTexts)

YearNext ==
    \/ YearParse
    \/ EventConnect
    \/ EventLookup
    \/ Build
    \/ Connect
    \/ Diagnostic
    \/ MainQuery
    \/ Recheck
    \/ Format

SpecYear == Init /\ [][YearNext]_vars

(***************************************************************************)
(* Two requests of the route music_muse in a threaded server.  A request   *)
(* creates its own MusicMuse and keeps parsed, rows and response in its    *)
(* locals: its frame.  The variables of the pipeline hold the frame of the *)
(* running request; a thread switch stores it and loads another.           *)
(***************************************************************************)
\* the requests
Runs == {1, 2}

\* get_current_user_id() of request r: the two requests are of different users
RunUser(r) == r

\* the texts of the requests
RunTexts == { <<"first", "during", "my", "trip">>, <<"percentage">> }

\* the frame of a request after MusicMuse(DB_PARAMS, user_id)
NewFrame(uid) ==
    [user_id |-> uid, pc |-> "idle", query_text |-> <<>>, parsed |-> ParseText(<<>>),
     sql |-> <<>>, params |-> <<>>, results |-> <<>>, response |-> Returned(<<>>),
     open_conns |-> 0, calls |-> [o \in StoreOps |-> 0], error |-> None]

\* no request is running
NoFrame ==
    [user_id |-> None, pc |-> "off", query_text |-> <<>>, parsed |-> <<>>,
     sql |-> <<>>, params |-> <<>>, results |-> <<>>, response |-> Returned(<<>>),
     open_conns |-> 0, calls |-> [o \in StoreOps |-> 0], error |-> None]

\* the frame of the running request
Frame ==
    [user_id |-> user_id, pc |-> pc, query_text |-> query_text, parsed |-> parsed,
     sql |-> sql, params |-> params, results |-> results, response |-> response,
     open_conns |-> open_conns, calls |-> calls, error |-> error]

\* frame f becomes the frame of the running request
Load(f) ==
    /\ user_id' = f.user_id
    /\ pc' = f.pc
    /\ query_text' = f.query_text
    /\ parsed' = f.parsed
    /\ sql' = f.sql
    /\ params' = f.params
    /\ results' = f.results
    /\ response' = f.response
    /\ open_conns' = f.open_conns
    /\ calls' = f.calls
    /\ error' = f.error

\* one MusicMuse for all requests, holding the user of the latest request
SharedMuse(r) == Some(RunUser(Max(Runs)))

\* self.user_id of the MusicMuse of request r: muse = MusicMuse(DB_PARAMS, user_id)
MuseOf(r) == Some(RunUser(r))

\* no pipeline run is going on
Off ==
    /\ user_id = NoFrame.user_id
    /\ pc = NoFrame.pc
    /\ query_text = NoFrame.query_text
    /\ parsed = NoFrame.parsed
    /\ sql = NoFrame.sql
    /\ params = NoFrame.params
    /\ results = NoFrame.results
    /\ response = NoFrame.response
    /\ open_conns = NoFrame.open_conns
    /\ calls = NoFrame.calls
    /\ error = NoFrame.error

\* two requests have arrived, each with its text; none is running
RunsInit ==
    /\ runs \in [Runs -> [text : RunTexts, frame : {NewFrame(None)}]]
    /\ current = 0
    /\ Off
    /\ history = EmptyBag
    /\ unique_key = FALSE
    /\ tasks = <<>>

\* the thread of request r is scheduled: its locals and its muse are what
\* the code reads from now on
Resume(r) ==
    /\ current = 0
    /\ runs[r].frame.pc # "formatted"
    /\ Load([runs[r].frame EXCEPT !.user_id = MuseOf(r)])
    /\ current' = r
    /\ UNCHANGED << runs, history, unique_key, tasks >>

\* the positions at which a run waits for the store
RoundTrips == {"event_connect", "event_lookup", "connect", "diagnostic", "main",
               "recheck"}

\* the running thread waits for the store and another thread is scheduled,
\* or its request is answered
Suspend ==
    /\ current # 0
    /\ pc \in RoundTrips \cup {"formatted"}
    /\ runs' = [runs EXCEPT ![current].frame = Frame]
    /\ current' = 0
    /\ Load(NoFrame)
    /\ UNCHANGED << history, unique_key, tasks >>

\* muse.execute_query(query_text) of the running request
RunParse == current # 0 /\ ParseOf({runs[current].text})

RunsNext ==
    \/ \E r \in Runs : Resume(r)
    \/ Suspend
    \/ RunParse
    \/ EventConnect
    \/ EventLookup
    \/ Build
    \/ Connect
    \/ Diagnostic
    \/ MainQuery
    \/ Recheck
    \/ Format

SpecRuns == RunsInit /\ [][RunsNext]_vars

(***************************************************************************)
(* The live scrobbler (src/live_scrobbler): the task                       *)
(* scrobble_user_recently_played fetches the recently played tracks of a   *)
(* user and stores each with insert_listening_history, which looks for the *)
(* row, inserts it and commits.  Every task has its own connection, so a   *)
(* row is seen by the other tasks from its commit on.                      *)
(***************************************************************************)
\* the greatest number of items the Spotify API returns to a task
MaxPlays == 2

\* the executions of scrobble_user_recently_played, all for user 1
TaskIds == {1, 2}

\* the plays Spotify knows of the user: played_at and the track
Plays == { [timestamp |-> 1, track_id |-> 10], [timestamp |-> 2, track_id |-> 11] }

\* spotify.get_recently_played(limit=50): the lists a task can be given
RecentlyPlayed == SeqsUpTo(Plays, MaxPlays)

\* the key columns of the listening_history row of a play of the user
RowOf(play) == [user_id |-> 1, timestamp |-> play.timestamp, track_id |-> play.track_id]

\* a task that has not started
IdleTask ==
    [pc |-> "idle", todo |-> <<>>, inserted_count |-> 0, commits |-> 0,
     returned |-> "none", raised |-> ""]

\* the row task t is about to look for or store
RowAt(t) == RowOf(Head(tasks[t].todo))

\* a lookup that finds nothing, whatever the table holds
record_never_exists(row) == FALSE

\* record_exists(conn, user_id, played_at, track_id): SELECT 1 ... LIMIT 1
\* over the committed rows
record_exists(row) == BagIn(row, history)

\* the locals of task t after insert_listening_history returned ret and the
\* loop went on to the next item
Advance(t, ret) ==
    LET rest == Tail(tasks[t].todo)
    IN  [tasks[t] EXCEPT
            !.todo = rest,
            !.returned = ret,
            !.inserted_count = IF ret = "true" THEN @ + 1 ELSE @,
            !.pc = IF Len(rest) = 0 THEN "done" ELSE "check"]

\* the pipeline variables, which the scrobbler does not touch
pipeline == << user_id, pc, query_text, parsed, sql, params, results, response,
               open_conns, calls, error >>

\* the workers are idle and the table is empty, with or without the
\* constraint of scripts/add_listening_history_constraint.py
ScrobbleInit ==
    /\ Off
    /\ runs = <<>>
    /\ current = 0
    /\ history = EmptyBag
    /\ unique_key \in BOOLEAN
    /\ tasks = [t \in TaskIds |-> IdleTask]

\* task t starts: it takes a connection, reads the user and the credentials
\* and fetches the recently played items
Fetch(t) ==
    /\ tasks[t].pc = "idle"
    /\ \E items \in RecentlyPlayed :
          tasks' = [tasks EXCEPT ![t] =
                      [@ EXCEPT !.todo = items,
                                !.pc = IF Len(items) = 0 THEN "done" ELSE "check"]]
    /\ UNCHANGED << pipeline, runs, current, history, unique_key >>

\* insert_listening_history, first half: record_exists; when the row exists
\* the call returns False
Check(t) ==
    /\ tasks[t].pc = "check"
    /\ tasks' = [tasks EXCEPT ![t] =
                   IF record_exists(RowAt(t)) THEN Advance(t, "false")
                   ELSE [@ EXCEPT !.pc = "insert"]]
    /\ UNCHANGED << pipeline, runs, current, history, unique_key >>

\* another task has inserted the row of task t and not yet committed
PendingElsewhere(t) ==
    \E u \in TaskIds \ {t} : tasks[u].pc = "commit" /\ RowAt(u) = RowAt(t)

\* insert_listening_history, cur.execute(insert_query): with the constraint
\* the statement waits for a pending insert of the same key and fails on a
\* committed one; the except branch rolls back and re-raises, and the task
\* retries
Insert(t) ==
    /\ tasks[t].pc = "insert"
    /\ unique_key => ~PendingElsewhere(t)
    /\ tasks' = [tasks EXCEPT ![t] =
                   IF unique_key /\ BagIn(RowAt(t), history)
                   THEN [@ EXCEPT !.pc = "retry", !.raised = "UniqueViolation"]
                   ELSE [@ EXCEPT !.pc = "commit"]]
    /\ UNCHANGED << pipeline, runs, current, history, unique_key >>

\* insert_listening_history, conn.commit() and return True
Commit(t) ==
    /\ tasks[t].pc = "commit"
    /\ history' = history (+) SetToBag({RowAt(t)})
    /\ tasks' = [tasks EXCEPT ![t] = [Advance(t, "true") EXCEPT !.commits = @ + 1]]
    /\ UNCHANGED << pipeline, runs, current, unique_key >>

\* several workers, or a tick that overlaps a retry: the tasks interleave
ScrobbleNext ==
    \/ \E t \in TaskIds : Fetch(t)
    \/ \E t \in TaskIds : Check(t)
    \/ \E t \in TaskIds : Insert(t)
    \/ \E t \in TaskIds : Commit(t)

SpecScrobble == ScrobbleInit /\ [][ScrobbleNext]_vars

(***************************************************************************)
(* The package engine (src/main/app/musicnlp): MusicNLPClient.process_query *)
(* parses the text, resolves an event reference in the analyzer and builds *)
(* the WHERE clause in the executor.  Of the parsed query the model keeps  *)
(* the event and the time range, which are all the WHERE clause reads.     *)
(* A date is a day number, day 1 being January 1 of the current year.      *)
(***************************************************************************)
\* the phrases a query text of the package engine is put together from
NlpPhrases == {
    <<"top">>, <<"songs">>, <<"this", "year">>, <<"in", "2023">>,
    <<"during", "my", "trip", "period">>, <<"in", "the", "road", "trip", "time">> }

\* the query texts of the package engine
NlpTexts == TextsFrom(NlpPhrases, MaxPhrases)

\* word t starts with event, period or time
IsEventNoun(t) == StartsWithAny(t, {"event", "period", "time"})

\* the words at which (during|in|when|while)\s+ can end
NlpEventHeads(w) ==
    { i \in 1..Len(w) : \E h \in {"during", "in", "when", "while"} : EndsWith(w[i], h) }

\* the event nouns that close a group starting at word a
NlpEventEnds(w, a) == { j \in (a + 1)..Len(w) : IsEventNoun(w[j]) }

\* head i of event_pattern has a match
NlpEventMatchAt(w, i) == NlpEventEnds(w, i + 1) # {}

\* group(2) of the match at head i: "my" or "the" is skipped when a group
\* remains after it, and the group is the shortest one
NlpEventGroup(w, i) ==
    IF w[i + 1] \in {"my", "the"} /\ NlpEventEnds(w, i + 2) # {}
    THEN Slice(w, i + 2, Min(NlpEventEnds(w, i + 2)) - 1)
    ELSE Slice(w, i + 1, Min(NlpEventEnds(w, i + 1)) - 1)

\* MusicQueryParser._extract_event: None without a match
NlpExtractEvent(text) ==
    LET w == Words(Lower(text))
        H == { i \in NlpEventHeads(w) : NlpEventMatchAt(w, i) }
    IN  IF H = {} THEN None ELSE NlpEventGroup(w, Min(H))

\* the index of the ([0-9]{4}) of time_pattern for the head at word i, or 0
NlpYearIndex(w, i) ==
    LET a == IF i < Len(w) /\ w[i + 1] = "the" THEN i + 1 ELSE i
        b == IF a + 2 <= Len(w) /\ w[a + 1] \in {"year", "years", "month", "months",
                                                 "week", "weeks", "day", "days"}
                /\ w[a + 2] = "of" THEN a + 2 ELSE a
        Ok(k) == k <= Len(w) /\ HasDigits(w[k]) /\ NumPrefix[w[k]] >= 1000
    IN  IF Ok(b + 1) THEN b + 1 ELSE IF Ok(a + 1) THEN a + 1 ELSE 0

\* the heads of time_pattern that are followed by a year
NlpYearHeads(w) ==
    { i \in 1..Len(w) :
        /\ \E h \in {"in", "during", "from", "between"} : EndsWith(w[i], h)
        /\ NlpYearIndex(w, i) # 0 }

\* MusicQueryParser._extract_time_range: the type and the year
NlpTimeRange(text) ==
    LET w == Words(Lower(text))
        all == [type |-> "all_time", year |-> None]
    IN  IF Has2(w, "all", "time") THEN all
        ELSE IF Has2(w, "this", "year") \/ Has2(w, "current", "year")
        THEN [all EXCEPT !.type = "this_year"]
        ELSE IF Has2(w, "last", "month") \/ Has2(w, "past", "month")
        THEN [all EXCEPT !.type = "this_month"]
        ELSE IF Has2(w, "last", "week") \/ Has2(w, "past", "week")
        THEN [all EXCEPT !.type = "this_week"]
        ELSE IF NlpYearHeads(w) # {}
        THEN [type |-> "year",
              year |-> Some(NumPrefix[w[NlpYearIndex(w, Min(NlpYearHeads(w)))]])]
        ELSE all

\* the event_context of a query without a resolved event
NlpUnresolved == [resolved |-> FALSE, start_date |-> None, end_date |-> None]

\* MusicQueryParser.parse and MusicQueryAnalyzer.analyze before the lookup
NlpParsed(text) ==
    [event |-> NlpExtractEvent(text), time_range |-> NlpTimeRange(text),
     event_context |-> NlpUnresolved]

\* MusicQueryExecutor._get_date_range: <<start_date, end_date>>
NlpDateRange(tr) ==
    IF tr.type = "this_year" THEN << Some(1), Some(Today) >>
    ELSE IF tr.type = "this_month" THEN << Some(1), Some(Today) >>
    ELSE IF tr.type = "this_week" THEN << Some(Today - 7), Some(Today) >>
    ELSE IF tr.type = "year" /\ tr.year # None
    THEN << Some((tr.year[1] - CurrentYear) * 365 + 1),
            Some((tr.year[1] - CurrentYear) * 365 + 365) >>
    ELSE << None, None >>


\* the events of any user whose lower-cased name contains the phrase
NlpMatchingEvents(phrase) ==
    { e \in user_events : IsInfix(Lower(phrase), Lower(e.name)) }

\* the event_context after get_event_by_name has returned event e
NlpResolved(e) ==
    [resolved |-> TRUE, start_date |-> Some(e.start_date), end_date |-> e.end_date]

\* the conditions of _build_where_clause with their parameters
NlpWherePreds(uid, q) ==
    LET tr == NlpDateRange(q.time_range)
        ec == q.event_context
    IN     Pred(TRUE, "listening_history.user_id = %s", << IntParam("user_id", uid) >>)
        \o Pred(q.time_range.type # "all_time" /\ tr[1] # None,
                "listening_history.timestamp >= %s",
                << IntParam("start_date", IF tr[1] # None THEN tr[1][1] ELSE 0) >>)
        \o Pred(q.time_range.type # "all_time" /\ tr[2] # None,
                "listening_history.timestamp <= %s",
                << IntParam("end_date", IF tr[2] # None THEN tr[2][1] ELSE 0) >>)
        \o Pred(ec.resolved /\ Truthy(ec.start_date),
                "listening_history.timestamp >= %s",
                << IntParam("start_date",
                            IF ec.start_date # None THEN ec.start_date[1] ELSE 0) >>)
        \o Pred(ec.resolved /\ Truthy(ec.end_date),
                "listening_history.timestamp <= %s",
                << IntParam("end_date",
                            IF ec.end_date # None THEN ec.end_date[1] ELSE 0) >>)

\* the state at the call MusicNLPClient.process_query(query_text, user_id)
NlpInit ==
    /\ Alone
    /\ user_id \in { Some(u) : u \in Users }
    /\ pc = "nlp_idle"
    /\ query_text = <<>>
    /\ parsed = NlpParsed(<<>>)
    /\ sql = <<>>
    /\ params = <<>>
    /\ results = <<>>
    /\ response = Returned(<<>>)
    /\ open_conns = 0
    /\ calls = [o \in StoreOps |-> 0]
    /\ error = None

\* parser.parse, and analyzer.analyze up to the event lookup
NlpParse ==
    /\ pc = "nlp_idle"
    /\ \E text \in NlpTexts :
        /\ query_text' = text
        /\ parsed' = NlpParsed(text)
        /\ pc' = IF NonEmptyStr(NlpExtractEvent(text)) THEN "nlp_resolve" ELSE "nlp_build"
    /\ UNCHANGED << others, user_id, sql, params, results, response, open_conns, calls,
                    error >>

\* analyzer._resolve_event_context: get_event_by_name(event_name) connects,
\* runs its query without a user and closes the connection
NlpResolve ==
    /\ pc = "nlp_resolve"
    /\ pc' = "nlp_build"
    /\ \/ \* the connection fails: get_event_by_name returns None
          /\ calls' = Called("event_connect")
          /\ parsed' = parsed
       \/ /\ calls' = [calls EXCEPT !["event_connect"] = @ + 1,
                                    !["event_lookup"] = @ + 1]
          /\ \/ \* LIMIT 1 without an order: any matching row
                \E e \in NlpMatchingEvents(parsed.event) :
                    parsed' = [parsed EXCEPT !.event_context = NlpResolved(e)]
             \/ /\ NlpMatchingEvents(parsed.event) = {}
                /\ parsed' = parsed
             \/ \* the query fails: get_event_by_name returns None
                parsed' = parsed
    /\ UNCHANGED << others, user_id, query_text, sql, params, results, response, open_conns,
                    error >>

\* executor._build_sql_query: the FROM and WHERE clauses of the query
NlpBuildWhere ==
    /\ pc = "nlp_build"
    /\ sql' = <<"FROM listening_history JOIN tracks ON listening_history.track_id = tracks.track_id JOIN albums ON tracks.album_id = albums.album_id JOIN artists ON albums.artist_id = artists.artist_id">>
              \o where_clause(NlpWherePreds(user_id[1], parsed))
    /\ params' = WhereParams(NlpWherePreds(user_id[1], parsed))
    /\ query_text' = <<>>
    /\ pc' = "nlp_execute"
    /\ UNCHANGED << others, user_id, parsed, results, response, open_conns, calls, error >>

\* executor._execute_sql: connect, run the query, close in finally; a failure
\* is re-raised and executor.execute returns an error record
NlpExecute ==
    /\ pc = "nlp_execute"
    /\ pc' = "nlp_done"
    /\ \/ /\ calls' = [calls EXCEPT !["connect"] = @ + 1, !["main"] = @ + 1]
          /\ \E rows \in SeqsUpTo(GroupedRows("artist"), 1) : results' = rows
          /\ error' = error
       \/ /\ calls' = [calls EXCEPT !["connect"] = @ + 1, !["main"] = @ + 1]
          /\ \E msg \in ErrorMessages :
                /\ error' = Some([at |-> "main", msg |-> msg])
                /\ results' = results
       \/ /\ calls' = Called("connect")
          /\ \E msg \in ErrorMessages :
                /\ error' = Some([at |-> "connect", msg |-> msg])
                /\ results' = results
    /\ UNCHANGED << others, user_id, query_text, parsed, sql, params, response, open_conns >>

NlpNext ==
    \/ NlpParse
    \/ NlpResolve
    \/ NlpBuildWhere
    \/ NlpExecute

SpecNlp == NlpInit /\ [][NlpNext]_vars

(***************************************************************************)
(* Properties.                                                             *)
(***************************************************************************)
\* parse_natural_language is at or past its event lookup and the text is
\* still at hand
Parsing == pc \in {"event_connect", "event_lookup", "build"}

\* build_sql_query has returned
Built == pc \in {"connect", "diagnostic", "main", "recheck", "done", "formatted"}

\* the roles in which format_response renders a cell of a row
RowRoles == {"entity", "artist", "timestamp", "percentage"}

\* the SQL text has the fragment f
HasFragment(f) == \E i \in 1..Len(sql) : sql[i] = f

\* C1: for every parsed record and every rows value execute_query returns
\* (no rows, data rows, the store-failure sentinel), format_response returns
\* a non-empty string and raises no exception.
C1_FormatReturnsText ==
    pc = "formatted" => ~response.raised /\ Len(response.html) > 0

\* C2: when rows is the store-failure sentinel, format_response returns for
\* every action and renders no field of the sentinel as an entity name, a
\* timestamp or a count.
C2_SentinelNotRenderedAsData ==
    pc = "formatted" /\ IsSentinel(results) =>
        /\ ~response.raised
        /\ \A i \in 1..Len(response.html) : response.html[i].k \notin RowRoles

\* C3: a failure of a store operation of execute_query (connect, a
\* diagnostic query, the main query) is not propagated and not retried:
\* execute_query returns with rows the one-element sentinel carrying the
\* message, and issues no store operation after the failure.
C3_FailureYieldsSentinel ==
    /\ [](error # None =>
            /\ pc \in {"done", "formatted"}
            /\ results = << << Str("Error executing query"), Str(error[1].msg) >> >>
            /\ calls["connect"] <= 1 /\ calls["main"] <= 1)
    /\ [][error # None => calls' = calls]_vars

\* a diagnostic query of an event query has failed and execute_query has
\* returned
C3_Witness == pc = "done" /\ error # None /\ error[1].at = "diagnostic"

\* C4: after parse_natural_language, parsed.limit is an integer in 1..20.
C4_LimitInRange == pc # "idle" => parsed.limit \in 1..MaxLimit

\* C5: the action is chosen by a fixed precedence: first if the first-listen
\* rule fires, else percentage if the text has "percentage", else nth if an
\* ordinal token is present, else skipped if the text has "skip", else top.
C5_ActionPrecedence ==
    Parsing =>
        LET q == LowerQuery(query_text)
        IN  parsed.action =
                IF FirstRule(q) THEN "first"
                ELSE IF Has(q, "percentage") THEN "percentage"
                ELSE IF \E i \in 1..Len(q) : IsOrdinalTok(q[i]) THEN "nth"
                ELSE IF Has(q, "skip") THEN "skipped"
                ELSE "top"

\* a text with "percentage", an ordinal token and "skip" is parsed as
\* percentage
C5_Witness ==
    /\ pc = "build"
    /\ Has(query_text, "percentage") /\ Has(query_text, "skip")
    /\ \E i \in 1..Len(query_text) : IsOrdinalTok(query_text[i])
    /\ parsed.action = "percentage"

\* the text has an ordinal token and the word "percentage"
OrdinalAndPercentage ==
    /\ Parsing
    /\ Has(LowerQuery(query_text), "percentage")
    /\ \E i \in 1..Len(query_text) : IsOrdinalTok(LowerQuery(query_text)[i])

\* C6, as stated: a text with an ordinal token and "percentage" is parsed as
\* percentage, whatever else it contains.
C6_PercentageWhateverElse == OrdinalAndPercentage => parsed.action = "percentage"

\* C6, amended: a text with an ordinal token and "percentage" is parsed as
\* percentage unless the first-listen rule fires, and then as first.
C6_PercentageUnlessFirst ==
    OrdinalAndPercentage =>
        parsed.action = IF FirstRule(LowerQuery(query_text))
                        THEN "first" ELSE "percentage"

\* a text with an ordinal token and "percentage" and no first-listen phrase
C6_Witness ==
    /\ OrdinalAndPercentage
    /\ ~Has(query_text, "first")
    /\ parsed.action = "percentage"

\* C7: for every parse with action nth an ordinal is recorded and the query
\* is the single-row chronological one, ORDER BY timestamp ASC OFFSET %s
\* LIMIT 1, with the non-negative offset ordinal - 1 as the last parameter.
C7_NthQueryShape ==
    Built /\ parsed.action = "nth" =>
        /\ parsed.nth # None
        /\ Len(sql) >= 2 /\ Len(params) >= 1
        /\ sql[Len(sql) - 1] = "ORDER BY lh.timestamp ASC"
        /\ sql[Len(sql)] = "OFFSET %s LIMIT 1;"
        /\ params[Len(params)].k = "offset"
        /\ params[Len(params)].n >= 0
        /\ (parsed.nth[1] >= 1 => params[Len(params)].n = parsed.nth[1] - 1)

\* the names rendered in the list items of the response
RenderedNames ==
    { response.html[i].s[1] :
        i \in { j \in 1..Len(response.html) : response.html[j].k \in {"entity", "artist"} } }

\* format_response has rendered a top or skipped answer
ListFormatted == pc = "formatted" /\ parsed.action \in {"top", "skipped"}

\* C8, as stated: no rendered list item of a top or skipped answer has a
\* name column equal, up to case and surrounding spaces, to "Unknown
\* Artist", "Unknown Track" or "Unknown Album".
C8_NoPlaceholderInAnyColumn ==
    ListFormatted =>
        \A name \in RenderedNames :
            StripLower(name) \notin {"unknown artist", "unknown track", "unknown album"}

\* C8, amended: in no rendered list item is the entity column equal, up to
\* case and surrounding spaces, to the placeholder of the entity type
\* (artist: "Unknown Artist", track: "Unknown Track", album: "Unknown
\* Album"), nor the artist column of a track or album to "Unknown Artist".
C8_NoPlaceholderOfOwnColumn ==
    ListFormatted =>
        \A i \in 1..Len(response.html) :
            /\ response.html[i].k = "entity" =>
                 StripLower(response.html[i].s[1]) #
                    (IF parsed.entity_type = "track" THEN "unknown track"
                     ELSE IF parsed.entity_type = "album" THEN "unknown album"
                     ELSE "unknown artist")
            /\ response.html[i].k = "artist" =>
                 StripLower(response.html[i].s[1]) # "unknown artist"

\* a fetched row carries a placeholder in another spelling and a list was
\* rendered from the rows after it
C8_Witness ==
    /\ ListFormatted
    /\ Len(results) = 2
    /\ results[1][1].s = " UNKNOWN ARTIST "
    /\ RenderedNames # {}

\* the positions of the fetched rows that hold no placeholder of their column
ValidPositions ==
    { i \in 1..Len(results) :
        LET row == results[i]
            own == IF parsed.entity_type = "track" THEN "unknown track"
                   ELSE IF parsed.entity_type = "album" THEN "unknown album"
                   ELSE "unknown artist"
        IN  /\ StripLower(row[1].s) # own
            /\ parsed.entity_type \in {"track", "album"} =>
                 StripLower(row[2].s) # "unknown artist" }

\* the k-th valid position, in fetched order
KthValid(k) ==
    CHOOSE i \in ValidPositions : Cardinality({ j \in ValidPositions : j <= i }) = k

\* the entity names of the rendered list, in rendered order
RenderedEntities ==
    SelectSeq(response.html, LAMBDA piece : piece.k = "entity")

\* C9: for top and skipped the LIMIT parameter is 2 x parsed.limit, the
\* rendered list is the first parsed.limit valid rows of the fetched rows in
\* fetched order, and the main query is issued once at most.
C9_OverfetchFilterTake ==
    /\ Built /\ parsed.action \in {"top", "skipped"} =>
        /\ params[Len(params)] = [k |-> "limit", n |-> 2 * parsed.limit, s |-> <<>>]
        /\ calls["main"] <= 1
    /\ ListFormatted =>
        /\ ~response.raised
        /\ Len(RenderedEntities) =
             IF parsed.limit < Cardinality(ValidPositions)
             THEN parsed.limit ELSE Cardinality(ValidPositions)
        /\ \A k \in 1..Len(RenderedEntities) :
             RenderedEntities[k].s[1] = results[KthValid(k)][1].s

\* more valid rows were fetched than the limit asks for, and a list was
\* rendered
C9_Witness ==
    /\ ListFormatted
    /\ error = None
    /\ parsed.limit >= 1
    /\ Cardinality(ValidPositions) > parsed.limit
    /\ Len(RenderedEntities) = parsed.limit

\* C10: with a play count set, the query of a grouped action (top, skipped)
\* carries HAVING COUNT(*) = %s with the count as a parameter; the queries
\* of first, last, nth and percentage carry no HAVING clause.
C10_HavingForGrouped ==
    Built =>
        /\ parsed.play_count # None /\ parsed.action \in {"top", "skipped"} =>
             /\ HasFragment("HAVING COUNT(*) = %s")
             /\ \E i \in 1..Len(params) :
                  params[i] = [k |-> "play_count", n |-> parsed.play_count[1], s |-> <<>>]
        /\ parsed.action \in {"first", "last", "nth", "percentage"} =>
             ~HasFragment("HAVING COUNT(*) = %s")

\* C11: with a user bound, every query over the listening history that
\* build_sql_query returns, whatever the action, the entity type and the
\* constraints, has the predicate lh.user_id = %s first in a WHERE clause
\* whose predicates are joined by AND only, and binds the user's id to it.
C11_UserPredicateInEveryQuery ==
    Built /\ user_id # None /\ HasFragment(base_join) =>
        /\ \E i \in 1..(Len(sql) - 1) :
              /\ sql[i] = "WHERE" /\ sql[i + 1] = "lh.user_id = %s"
              /\ sql[i - 1] = base_join
        /\ ~HasFragment("OR")
        /\ Len(params) >= 1
        /\ params[1] = [k |-> "user_id", n |-> user_id[1], s |-> <<>>]

\* a percentage query of user 2 that carries a play count
C11_Witness ==
    /\ Built /\ user_id = Some(2)
    /\ parsed.action = "percentage" /\ parsed.play_count # None
    /\ HasFragment("lh.user_id = %s")

\* the positions of a run of the package engine
NlpPositions == {"nlp_idle", "nlp_resolve", "nlp_build", "nlp_execute", "nlp_done"}

\* the date range an event reference was resolved to, None when unresolved:
\* <<start_date, end_date>>, the end of an open event being None
ResolvedRange ==
    IF pc \in NlpPositions
    THEN IF parsed.event_context.resolved
         THEN Some(<< parsed.event_context.start_date[1], parsed.event_context.end_date >>)
         ELSE None
    ELSE IF parsed.event_name # None
         THEN Some(<< parsed.start_date[1],
                      IF parsed.end_date = Some(Today) THEN None ELSE parsed.end_date >>)
         ELSE None

\* C12: an event reference resolves only to an event the requesting user
\* owns, so the resolved date range is that of one of the user's own events;
\* without a user the resolver issues no store operation and resolves
\* nothing.
C12_EventResolutionUserScoped ==
    /\ ResolvedRange # None =>
         /\ user_id # None
         /\ \E e \in user_events :
              /\ e.user_id = user_id[1]
              /\ ResolvedRange[1] = << e.start_date, e.end_date >>
    /\ user_id = None =>
         /\ ResolvedRange = None
         /\ calls["event_connect"] = 0 /\ calls["event_lookup"] = 0

\* the date-range predicate of build_sql_query
DateRangeClause == "lh.timestamp::date BETWEEN %s::date AND %s::date"

\* the rendered text names an event
RendersEvent ==
    \E i \in 1..Len(response.html) :
        response.html[i] = Lit("during your") \/ response.html[i].k = "event_name"

\* C13: when the event phrase matches no event of the user, or the lookup
\* fails, the run goes on to build_sql_query with no event name and no dates
\* recorded; the query then has no date-range predicate and the header of a
\* top or skipped answer has no "during your <event>" clause.
C13_UnresolvedEventLeavesNoTrace ==
    /\ [][pc = "event_connect" /\ pc' = "build"
            => parsed'.event_name = None /\ error' = None]_vars
    /\ [][pc = "event_lookup"
            /\ (MatchingEvents(user_id[1], EventPhrase(query_text)) = {}
                \/ parsed'.event_record_count = None)
            => /\ pc' = "build" /\ error' = None
               /\ parsed'.event_name = None]_vars
    /\ [](parsed.event_name = None =>
            /\ parsed.start_date = None /\ parsed.end_date = None
            /\ Built =>
                 /\ ~HasFragment(DateRangeClause)
                 /\ \A i \in 1..Len(params) :
                      params[i].k \notin {"start_date", "end_date"}
            /\ ListFormatted /\ ~response.raised => ~RendersEvent)

\* the lookup has run for a phrase that names no event of the user, and the
\* header of the answer was rendered
C13_Witness ==
    /\ ListFormatted /\ ~response.raised /\ Len(response.html) > 0
    /\ calls["event_lookup"] = 1
    /\ parsed.event_name = None
    /\ error = None

\* the fragments of SQL text without a placeholder
PlainFragments == {
    "SELECT", "WHERE", "AND", ";", "LIMIT 1;",
    "t.track_name AS entity", "a.album_name AS entity", "ar.artist_name AS entity",
    "ar.artist_name AS sub_entity", "lh.timestamp AS first_listen",
    "lh.timestamp AS listen_time",
    "FROM listening_history lh JOIN tracks t ON lh.track_id = t.track_id JOIN albums a ON t.album_id = a.album_id JOIN artists ar ON a.artist_id = ar.artist_id",
    "EXTRACT(MONTH FROM lh.timestamp) IN (6, 7, 8)",
    "EXTRACT(MONTH FROM lh.timestamp) IN (12, 1, 2)",
    "EXTRACT(MONTH FROM lh.timestamp) IN (9, 10, 11)",
    "EXTRACT(MONTH FROM lh.timestamp) IN (3, 4, 5)",
    "ORDER BY lh.timestamp ASC", "ORDER BY lh.timestamp DESC",
    "COUNT(*) FILTER (WHERE lh.skipped = TRUE) AS skipped_count",
    "COUNT(*) AS total_count", "COUNT(*) AS skip_count", "COUNT(*) AS play_count",
    "SUM(lh.ms_played) AS total_ms",
    "GROUP BY t.track_name, ar.artist_name", "GROUP BY a.album_name, ar.artist_name",
    "GROUP BY ar.artist_name" }

\* the fragments of SQL text with one placeholder %s
BindingFragments == {
    "lh.user_id = %s", "EXTRACT(YEAR FROM lh.timestamp) = %s",
    "EXTRACT(DOW FROM lh.timestamp) = %s", "EXTRACT(HOUR FROM lh.timestamp) >= %s",
    "EXTRACT(HOUR FROM lh.timestamp) < %s", "EXTRACT(MONTH FROM lh.timestamp) = %s",
    "ar.artist_name ILIKE %s", "lh.platform ILIKE %s", "lh.country ILIKE %s",
    "lh.shuffle = %s", "lh.moods ILIKE %s", "lh.reason_start ILIKE %s",
    "OFFSET %s LIMIT 1;", "HAVING COUNT(*) = %s", "ORDER BY skip_count DESC LIMIT %s;",
    "ORDER BY play_count DESC LIMIT %s;", "ORDER BY total_ms DESC LIMIT %s;",
    "SELECT %s AS error_msg;" }

RECURSIVE Placeholders(_)
\* the number of placeholders %s of an SQL text
Placeholders(text) ==
    IF Len(text) = 0 THEN 0
    ELSE (IF text[1] \in BindingFragments THEN 1
          ELSE IF text[1] = DateRangeClause THEN 2 ELSE 0)
         + Placeholders(Tail(text))

\* the parameter list binds value v under the name k
Binds(k, v) == \E i \in 1..Len(params) : params[i].k = k /\ params[i].s = v

\* the parameter list binds the number n under the name k
BindsInt(k, n) == \E i \in 1..Len(params) : params[i].k = k /\ params[i].n = n

\* C14: the SQL text build_sql_query returns is put together from a fixed
\* finite set of fragments, none taken from the query text; it has one
\* placeholder per parameter, and the values extracted from the text (filter
\* value, ordinal, limit, play count of a skipped query, event dates) are in
\* the parameter list.
C14_ValuesOnlyThroughParams ==
    Built =>
        /\ \A i \in 1..Len(sql) :
             sql[i] \in PlainFragments \cup BindingFragments \cup {DateRangeClause}
        /\ Placeholders(sql) = Len(params)
        /\ HasFragment("ar.artist_name ILIKE %s") =>
             Binds("filter_value", <<"%">> \o parsed.filter_value \o <<"%">>)
        /\ HasFragment("OFFSET %s LIMIT 1;") => BindsInt("offset", parsed.nth[1] - 1)
        /\ parsed.action \in {"top", "skipped"} => BindsInt("limit", 2 * parsed.limit)
        /\ HasFragment("HAVING COUNT(*) = %s") =>
             BindsInt("play_count", parsed.play_count[1])
        /\ HasFragment(DateRangeClause) =>
             /\ BindsInt("start_date", parsed.start_date[1])
             /\ BindsInt("end_date", parsed.end_date[1])

\* a query with a filter value, a play count and an event window
C14_Witness ==
    /\ Built
    /\ HasFragment("ar.artist_name ILIKE %s")
    /\ HasFragment(DateRangeClause)
    /\ Len(params) >= 4

\* C15: every store connection opened during a run (the event lookup of
\* get_event_dates, the round trip of execute_query) has been closed when
\* execute_query returns, on success, on an empty result and on an error.
C15_ConnectionsReleased ==
    /\ pc \in {"done", "formatted"} => open_conns = 0
    /\ pc \in {"build", "connect"} => open_conns = 0

\* the numbers that follow a limit keyword in the text
KeywordNumbers ==
    LET w == Words(LowerQuery(query_text))
    IN  { NumPrefix[w[i]] : i \in KeywordNumberPositions(w, LimitKeywords) }

\* C16: a number N right after a limit keyword (top, skipped, most listened,
\* most played, streamed, replay, replayed, favorite, binge-listen) makes the
\* parsed limit min(N, 20); the default 5 of "favorite" is for texts without
\* such a number.
C16_ExplicitLimitAfterKeyword ==
    (Parsing /\ KeywordNumbers # {}) =>
        \E n \in KeywordNumbers : parsed.limit = IF n > 20 THEN 20 ELSE n

\* the text names the entity in the singular and never in the plural
NounSingularOnly ==
    LET e == parsed.entity_type
    IN  \/ /\ e = "track"
           /\ HasWord(query_text, "song") \/ HasWord(query_text, "track")
           /\ ~HasWord(query_text, "songs") /\ ~HasWord(query_text, "tracks")
        \/ e = "album" /\ HasWord(query_text, "album") /\ ~HasWord(query_text, "albums")
        \/ e = "artist" /\ HasWord(query_text, "artist")
             /\ ~HasWord(query_text, "artists")

\* C17: a text without an explicit numeric limit whose entity noun (song or
\* track, album, artist) occurs in the singular only is parsed to limit 1.
C17_SingularNounLimitOne ==
    (/\ Parsing
     /\ KeywordNumbers = {}
     /\ AltLimitPositions(Words(LowerQuery(query_text))) = {}
     /\ NounSingularOnly) => parsed.limit = 1

\* the hour of the day that "h", "h am" or "h pm" names
ClockHour(h, period) ==
    IF period = "pm" THEN (IF h < 12 THEN h + 12 ELSE h)
    ELSE IF period = "am" THEN (IF h = 12 THEN 0 ELSE h)
    ELSE h

\* the hours of the day that the text states as a lower bound: after an
\* "after" and as the first hour of a "between"
StatedAfter ==
    LET w == Words(LowerQuery(query_text))
    IN  { ClockHour(FirstTwo(NumPrefix[w[i + 1]]), PeriodAt(w, i + 1)) :
            i \in HourPositions(w, "after") }
        \cup { ClockHour(NumPrefix[w[i + 1]], PeriodAt(w, i + 1)) :
                 i \in BetweenPositions(w) }

\* the hours of the day that the text states as an upper bound: after a
\* "before" and as the second hour of a "between"
StatedBefore ==
    LET w == Words(LowerQuery(query_text))
    IN  { ClockHour(FirstTwo(NumPrefix[w[i + 1]]), PeriodAt(w, i + 1)) :
            i \in HourPositions(w, "before") }
        \cup { ClockHour(NumPrefix[w[i + 3]], PeriodAt(w, i + 3)) :
                 i \in BetweenPositions(w) }

\* C18: the parsed lower and upper hour bounds are hours of the day that the
\* text states, in 24-hour form (12 am is 0, 12 pm is 12, H pm is H + 12), a
\* bound the text does not state is unset, and the query has the predicate
\* hour >= bound exactly for a set lower bound and hour < bound exactly for
\* a set upper bound, with the bound as its parameter.
C18_HourBoundsHalfOpen ==
    /\ Parsing =>
          /\ (StatedAfter = {}) = (parsed.time_after = None)
          /\ (StatedBefore = {}) = (parsed.time_before = None)
          /\ parsed.time_after # None => parsed.time_after[1] \in StatedAfter
          /\ parsed.time_before # None => parsed.time_before[1] \in StatedBefore
    /\ Built =>
          /\ HasFragment("EXTRACT(HOUR FROM lh.timestamp) >= %s")
                = (parsed.time_after # None)
          /\ HasFragment("EXTRACT(HOUR FROM lh.timestamp) < %s")
                = (parsed.time_before # None)
          /\ parsed.time_after # None => BindsInt("time_after", parsed.time_after[1])
          /\ parsed.time_before # None => BindsInt("time_before", parsed.time_before[1])

\* the "no data" answer of a percentage query
NoPercentageData ==
    Returned(<< Lit("<h2>No data available to calculate percentage.</h2>") >>)

\* the rendered percentage figures of the response, in hundredths of a percent
RenderedPercentages ==
    { response.html[i].n : i \in { j \in 1..Len(response.html) :
                                     response.html[j].k = "percentage" } }

\* C19: for a percentage query, no rows or a total of 0 give the "no data"
\* message; otherwise one figure is rendered, it is skipped / total x 100 to
\* the nearest hundredth (5 of 20 gives 25.00), and it lies in 0.00..100.00
\* when 0 <= skipped <= total.
C19_PercentageFigure ==
    /\ (pc # "idle" /\ parsed.action = "percentage") =>
          format_response(parsed, <<>>) = NoPercentageData
    /\ (/\ pc = "formatted"
        /\ parsed.action = "percentage"
        /\ Len(results) = 1
        /\ ~IsSentinel(results)) =>
          LET skipped == results[1][1].n
              total == results[1][2].n
          IN  IF total = 0 THEN response = NoPercentageData
              ELSE /\ ~response.raised
                   /\ Cardinality(RenderedPercentages) = 1
                   /\ \A h \in RenderedPercentages :
                        /\ 2 * (h * total - 10000 * skipped) <= total
                        /\ 2 * (10000 * skipped - h * total) <= total
                        /\ (0 <= skipped /\ skipped <= total) => (0 <= h /\ h <= 10000)
                        /\ (skipped = 5 /\ total = 20) => h = 2500

\* 5 skipped plays of 20 were rendered as 25.00%
C19_Witness ==
    /\ pc = "formatted"
    /\ parsed.action = "percentage"
    /\ results = << << Int_(5), Int_(20) >> >>
    /\ RenderedPercentages = {2500}

\* the last decimal digit of n
LastDigit(n) == n - 10 * (n \div 10)

\* the tens digit of n
TensDigit(n) == (n \div 10) - 10 * (n \div 100)

\* the English suffix of the ordinal of n
EnglishSuffix(n) ==
    IF TensDigit(n) = 1 /\ LastDigit(n) \in {1, 2, 3} THEN "th"
    ELSE IF LastDigit(n) = 1 THEN "st"
    ELSE IF LastDigit(n) = 2 THEN "nd"
    ELSE IF LastDigit(n) = 3 THEN "rd"
    ELSE "th"

\* the ordinals the response renders: <<number, suffix>>
RenderedOrdinals ==
    { << response.html[i].n, response.html[i].s >> :
        i \in { j \in 1..Len(response.html) : response.html[j].k = "ordinal" } }

\* a row was found for an Nth query and the response was formatted
NthAnswered ==
    /\ pc = "formatted"
    /\ parsed.action = "nth"
    /\ Truthy(parsed.nth)
    /\ Len(results) > 0
    /\ ~IsSentinel(results)

\* C20: the sentence of an answered Nth query renders the parsed ordinal n
\* as n followed by "th" when n mod 100 is 11, 12 or 13 and otherwise by
\* "st", "nd", "rd" for the last digit 1, 2, 3 and by "th" for any other
\* last digit (1st, 11th, 22nd, 13th).
C20_OrdinalOfNthSentence ==
    NthAnswered =>
        /\ ~response.raised
        /\ RenderedOrdinals = { << parsed.nth[1], << EnglishSuffix(parsed.nth[1]) >> >> }
        /\ parsed.nth[1] = 1 => RenderedOrdinals = { << 1, <<"st">> >> }
        /\ parsed.nth[1] = 11 => RenderedOrdinals = { << 11, <<"th">> >> }
        /\ parsed.nth[1] = 22 => RenderedOrdinals = { << 22, <<"nd">> >> }
        /\ parsed.nth[1] = 13 => RenderedOrdinals = { << 13, <<"th">> >> }

\* the sentence of a 112th query was rendered with "112th"
C20_Witness ==
    /\ NthAnswered
    /\ parsed.nth = Some(112)
    /\ RenderedOrdinals = { << 112, <<"th">> >> }

\* the three explanations of an answer without a list
NoEventData == "<p>No listening data found during this event period.</p>"

NoEventMatch == "<p>No matching results found for your query during this event.</p>"

NoMatch == "<p>No results found for your query.</p>"

\* the explanations the response renders
RenderedExplanations ==
    { response.html[i].s[1] :
        i \in { j \in 1..Len(response.html) :
                  /\ response.html[j].k = "lit"
                  /\ response.html[j].s[1] \in {NoEventData, NoEventMatch, NoMatch} } }

\* a top or skipped answer was formatted from fetched rows none of which is
\* valid
NoValidRows ==
    /\ ListFormatted
    /\ ~IsSentinel(results)
    /\ ValidPositions = {}

\* C21: a top or skipped answer with zero valid rows has no list and exactly
\* one explanation: "No listening data found during this event period" for
\* a resolved event whose window holds no record, "No matching results found
\* for your query during this event" for a resolved event whose window holds
\* records, "No results found for your query" without a resolved event.
C21_OneExplanationForNoRows ==
    NoValidRows =>
        /\ ~response.raised
        /\ Len(RenderedEntities) = 0
        /\ \A i \in 1..Len(response.html) :
             response.html[i] # Lit("<ul class='result-list'>")
        /\ RenderedExplanations =
             { IF parsed.start_date = None THEN NoMatch
               ELSE IF parsed.event_record_count = Some(0) THEN NoEventData
               ELSE NoEventMatch }

\* rows were fetched for a resolved event whose window holds records, all of
\* them placeholders, and the answer says so
C21_Witness ==
    /\ NoValidRows
    /\ Len(results) > 0
    /\ parsed.start_date # None
    /\ parsed.event_record_count = Some(2)
    /\ RenderedExplanations = {NoEventMatch}

\* the parsed records a request of user u with this text can hold when it
\* runs alone: with the event of u resolved, for either record count, or
\* without an event
SoloParsed(u, text) ==
    LET base == ParseText(text)
    IN  IF EventPositions(text) = {} THEN {base}
        ELSE LET phrase == EventPhrase(text)
             IN  {base} \cup
                 (IF MatchingEvents(u, phrase) = {} THEN {}
                  ELSE { WithEvent(base, phrase, BestEvent(u, phrase), c) :
                           c \in RecordCounts })

\* frame f is an outcome of a request of user u with this text run alone
SoloOutcome(f, u, text) ==
    /\ f.user_id = Some(u)
    /\ f.parsed \in SoloParsed(u, text)
    /\ f.sql = BuildSql(Some(u), f.parsed)
    /\ f.params = BuildParams(Some(u), f.parsed)
    /\ \/ f.results \in StoreResults(f.parsed, f.params)
       \/ IsSentinel(f.results)
    /\ f.response = format_response(f.parsed, f.results)

\* C22: two requests of different users, interleaved in any order at their
\* store round trips, are each answered with a parsed record, SQL, rows and
\* response that the request has when it runs alone against the same store,
\* and the only change a step makes to the frame of a request is to store
\* there the frame of the running request.
C22_RunsDoNotInterfere ==
    /\ []((current # 0 /\ pc = "formatted") =>
            SoloOutcome(Frame, RunUser(current), runs[current].text))
    /\ [][\A r \in Runs :
            runs'[r] # runs[r] =>
                current = r /\ runs'[r] = [runs[r] EXCEPT !.frame = Frame]]_vars

\* both requests are in flight with the event of their own user resolved:
\* request 1 waits at its main query while request 2 is at its own
C22_Witness ==
    /\ current = 2
    /\ pc = "main"
    /\ runs[1].frame.pc = "main"
    /\ runs[1].frame.parsed.start_date = Some(3)
    /\ parsed.start_date = Some(7)

\* insert_listening_history returns to task t in this step
Returns(t) == Len(tasks'[t].todo) = Len(tasks[t].todo) - 1

\* C23: a call of insert_listening_history whose lookup finds a row of the
\* key returns False at once, without insert or commit, so the table stays
\* as it is; only a call whose lookup found no such row goes on to insert,
\* and when it returns True it has added one row of the key and committed
\* once.
C23_InsertOnlyWhenAbsent ==
    [][\A t \in TaskIds :
        /\ (tasks[t].pc = "check" /\ tasks'[t] # tasks[t]) =>
              IF CopiesIn(RowAt(t), history) > 0
              THEN /\ Returns(t)
                   /\ tasks'[t].returned = "false"
                   /\ tasks'[t].commits = tasks[t].commits
                   /\ tasks'[t].inserted_count = tasks[t].inserted_count
                   /\ history' = history
              ELSE ~Returns(t) /\ tasks'[t].pc = "insert" /\ history' = history
        /\ (tasks'[t].pc \in {"insert", "commit"} /\ tasks'[t] # tasks[t]) =>
              tasks[t].pc \in {"check", "insert"}
        /\ (Returns(t) /\ tasks[t].pc # "check") =>
              /\ tasks[t].pc = "commit"
              /\ tasks'[t].returned = "true"
              /\ tasks'[t].commits = tasks[t].commits + 1
              /\ tasks'[t].inserted_count = tasks[t].inserted_count + 1
              /\ CopiesIn(RowAt(t), history') = CopiesIn(RowAt(t), history) + 1
              /\ BagCardinality(history') = BagCardinality(history) + 1
        /\ (history' # history) => \E u \in TaskIds : tasks[u].pc = "commit" /\ Returns(u)
      ]_vars

\* a task was given the same play twice in a row of calls: the first call
\* inserted and committed, the repeated call returned False
C23_Witness ==
    \E t \in TaskIds :
        /\ tasks[t].returned = "false"
        /\ tasks[t].commits = 1
        /\ tasks[t].inserted_count = 1
        /\ BagCardinality(history) = 1

\* C26: whatever the interleaving of the scrobble tasks of one user, the
\* table holds at most one row per (user_id, timestamp, track_id) and no
\* task fails on a row another task has inserted.
C26_NoDuplicateNoFailure ==
    /\ \A play \in Plays : CopiesIn(RowOf(play), history) <= 1
    /\ \A t \in TaskIds : tasks[t].raised # "UniqueViolation"

\* the listening events of one entity that pass the filters of the text
EntityEvents ==
    { [id |-> 1, skipped |-> TRUE], [id |-> 2, skipped |-> FALSE],
      [id |-> 3, skipped |-> TRUE] }

\* the events of the entity that COUNT(*) of the SQL text counts: all of
\* them, unless the WHERE clause asks for skipped ones
CountedEvents ==
    { e \in EntityEvents : HasFragment("lh.skipped = TRUE") => e.skipped }

\* C24: the metric by which a skipped query ranks an entity is the number of
\* the entity's events that were skipped; an event with skipped = false
\* does not count.
C24_SkipCountCountsSkips ==
    (Built /\ parsed.action = "skipped") =>
        /\ HasFragment("COUNT(*) AS skip_count")
        /\ CountedEvents = { e \in EntityEvents : e.skipped }

\* C25: once the main query has fetched its rows, execute_query returns
\* exactly those rows: no later step of execute_query, a failing check of
\* the event window included, replaces or discards them.
C25_MainResultKept ==
    [][pc = "recheck" => results' = results]_vars

\* the names of the values the placeholders of one fragment of SQL text
\* stand for, in the order of the placeholders
PlaceholderNames(fragment) ==
    CASE fragment = "lh.user_id = %s" -> <<"user_id">>
      [] fragment = "EXTRACT(YEAR FROM lh.timestamp) = %s" -> <<"year">>
      [] fragment = "EXTRACT(DOW FROM lh.timestamp) = %s" -> <<"day_of_week">>
      [] fragment = "EXTRACT(HOUR FROM lh.timestamp) >= %s" -> <<"time_after">>
      [] fragment = "EXTRACT(HOUR FROM lh.timestamp) < %s" -> <<"time_before">>
      [] fragment = "EXTRACT(MONTH FROM lh.timestamp) = %s" -> <<"month">>
      [] fragment = "ar.artist_name ILIKE %s" -> <<"filter_value">>
      [] fragment = "lh.platform ILIKE %s" -> <<"platform">>
      [] fragment = "lh.country ILIKE %s" -> <<"country">>
      [] fragment = "lh.shuffle = %s" -> <<"shuffle">>
      [] fragment = "lh.moods ILIKE %s" -> <<"mood">>
      [] fragment = "lh.reason_start ILIKE %s" -> <<"reason_start">>
      [] fragment = DateRangeClause -> <<"start_date", "end_date">>
      [] fragment = "HAVING COUNT(*) = %s" -> <<"play_count">>
      [] fragment = "OFFSET %s LIMIT 1;" -> <<"offset">>
      [] fragment \in { "ORDER BY skip_count DESC LIMIT %s;",
                        "ORDER BY play_count DESC LIMIT %s;",
                        "ORDER BY total_ms DESC LIMIT %s;" } -> <<"limit">>
      [] fragment = "SELECT %s AS error_msg;" -> <<"error_msg">>
      [] OTHER -> <<>>

RECURSIVE TextualOrder(_)
\* the names of the values of the placeholders of an SQL text, left to right
TextualOrder(text) ==
    IF Len(text) = 0 THEN <<>>
    ELSE PlaceholderNames(text[1]) \o TextualOrder(Tail(text))

\* the position of a fragment in the SQL text, 0 when it is absent
PositionOf(fragment) ==
    IF HasFragment(fragment)
    THEN CHOOSE i \in 1..Len(sql) : sql[i] = fragment ELSE 0

\* C27: the SQL text has as many placeholders as the parameter list has
\* values, and the i-th value is the one the i-th placeholder stands for:
\* the values of the WHERE clause first, then the count of HAVING, then the
\* offset or the limit.
C27_ParamsInTextualOrder ==
    Built =>
        /\ Placeholders(sql) = Len(params)
        /\ [i \in 1..Len(params) |-> params[i].k] = TextualOrder(sql)
        /\ HasFragment("HAVING COUNT(*) = %s") =>
             /\ PositionOf("WHERE") < PositionOf("HAVING COUNT(*) = %s")
             /\ PositionOf("HAVING COUNT(*) = %s") = Len(sql) - 1
             /\ params[Len(params)].k = "limit"
             /\ params[Len(params) - 1].k = "play_count"

\* a skipped query with values in its WHERE clause, a play count and a limit
C27_Witness ==
    /\ Built
    /\ HasFragment("HAVING COUNT(*) = %s")
    /\ HasFragment("ORDER BY skip_count DESC LIMIT %s;")
    /\ Len(params) >= 4

\* C28: the parser and the synthesizer agree on the filter: the SQL text has
\* the artist-name predicate, bound to the filter value, exactly when the
\* parsed record has a filter value.
C28_FilterAgreement ==
    Built =>
        /\ parsed.filter_value # None <=> HasFragment("ar.artist_name ILIKE %s")
        /\ HasFragment("ar.artist_name ILIKE %s") =>
             Binds("filter_value", Like(parsed.filter_value))

\* the openings of the sentences of the Last branch of format_response
LastSentences ==
    { "<h2>No matching record found for your last played query.</h2>",
      "<h2>Your last played" }

\* the run has rendered a sentence of the Last branch
RendersLast ==
    /\ ~response.raised
    /\ \E i \in 1..Len(response.html) :
         response.html[i].k = "lit" /\ response.html[i].s[1] \in LastSentences

\* C29: the action of a parsed text is one of top, skipped, first, nth and
\* percentage, never last: no query built through execute_query orders by
\* the latest timestamp, and no response is a sentence of the Last branch.
C29_LastNeverParsed ==
    /\ (Parsing \/ Built) =>
         parsed.action \in {"top", "skipped", "first", "nth", "percentage"}
    /\ Built => ~HasFragment("ORDER BY lh.timestamp DESC")
    /\ pc = "formatted" => ~RendersLast

\* a text about the last song has been parsed as a top query
C29_Witness ==
    /\ pc = "build"
    /\ query_text = <<"last", "song">>
    /\ parsed.action = "top"

\* the text has "after" or "before" followed by a number, and each of these
\* numbers is a four-digit year
KeywordsBeforeYearsOnly ==
    LET w == Words(LowerQuery(query_text))
        P == HourPositions(w, "after") \cup HourPositions(w, "before")
    IN  /\ P # {}
        /\ BetweenPositions(w) = {}
        /\ \A i \in P : IsYearTok(w[i + 1])

\* the predicates on the hour of the day
HourFragments ==
    { "EXTRACT(HOUR FROM lh.timestamp) >= %s", "EXTRACT(HOUR FROM lh.timestamp) < %s" }

\* C30: in a text where "after" or "before" is followed by a four-digit
\* year the year is extracted, time_after and time_before stay unset, and the
\* query built from the parsed record has no predicate on the hour.
C30_YearIsNotAnHour ==
    (Parsing /\ KeywordsBeforeYearsOnly) =>
        /\ parsed.year # None
        /\ parsed.time_after = None
        /\ parsed.time_before = None
        /\ \A i \in 1..Len(BuildSql(user_id, parsed)) :
             BuildSql(user_id, parsed)[i] \notin HourFragments

====
